---- MODULE Spec2Model ----
(***************************************************************************)
(* A model of seldom_state's transition engine: the StateMachine builder   *)
(* (src/src/machine.rs), the per-tick `transition` system and              *)
(* `StateMachine::run`.  States, triggers and hooks are identified by      *)
(* strings (their TypeIds); a state value carries a data token.            *)
(***************************************************************************)
EXTENDS Integers, Sequences, FiniteSets, TLC

VARIABLES
    builder,    \* the StateMachine value under construction (builder API)
    pool,       \* entity ids not spawned yet
    machine,    \* entity -> its StateMachine component
    comps,      \* entity -> (component TypeId -> data token) attached to it
    res,        \* whether the resource read by `resource_present` is in the world
    hookRuns,   \* entity -> [exit, enter]: times each hook's event was triggered
    cmdRuns,    \* hook event name -> times its queued command was applied
    markers,    \* entities carrying the marker component set by entity hooks
    ticks,      \* number of runs of the `transition` system so far
    spawned,    \* entity -> the state it was spawned in
    pre,        \* the world as the last run of `transition` found it
    panicked,   \* a system panicked: the app is gone
    log,        \* what the last run of `transition` did, in order
    trig,       \* a trigger (leaf system or combinator) about to be checked
    dist,       \* the distance to the target that the trigger `near` reads
    out,        \* the outcome of the last check of `trig`
    axis        \* the axis pair an AxisPairTrigger under check reads

vars == <<builder, pool, machine, comps, res, hookRuns, cmdRuns, markers,
          ticks, spawned, pre, panicked, log,
                   trig, dist, out, axis>>

(* ---------------------------- bounds ---------------------------------- *)
MaxTrans == 2       \* transitions a freely built machine registers
MaxHooks == 2       \* hooks a freely built machine registers
MaxHookTrans == 1   \* transitions of a machine built with hooks
MaxTicks == 3       \* runs of the `transition` system

(* --------------------------- universes -------------------------------- *)
States == {"A", "B", "C", "D"}
BuildStates == {"A", "B", "C"}
HookStates == {"A", "B"}
Triggers == {"always", "resource_present"}
Commands == {"cmd1", "cmd2"}

(* ------------------------- state filters ------------------------------ *)
\* An EntityState type used as a filter: a concrete state S, AnyState,
\* OneOfState<(..)> or NotState<..>.
IsState(s) == [k |-> "is", ss |-> {s}]
AnyState == [k |-> "any", ss |-> {}]
OneOfState(S) == [k |-> "oneof", ss |-> S]
NotState(f) ==
    IF f.k = "any" THEN [k |-> "oneof", ss |-> {}]
    ELSE IF f.k = "not" THEN [k |-> "oneof", ss |-> f.ss]
    ELSE [k |-> "not", ss |-> f.ss]

\* EntityState::matches
matches(f, state) ==
    CASE f.k = "any" -> TRUE
      [] f.k = "not" -> state \notin f.ss
      [] OTHER -> state \in f.ss

\* TypeId::of::<S>() of a filter type
TypeIdOf(f) ==
    CASE f.k = "is" -> CHOOSE s \in f.ss : TRUE
      [] f.k = "any" -> "AnyState"
      [] f.k = "oneof" -> "OneOfState"
      [] OTHER -> "NotState"

(* ----------------------- small function helpers ----------------------- *)
Without(f, key) == [x \in DOMAIN f \ {key} |-> f[x]]
With(f, key, v) == [x \in DOMAIN f \cup {key} |-> IF x = key THEN v ELSE f[x]]

(* ----------------------------- builder -------------------------------- *)
\* StateMachine::default
Default ==
    [states |-> {}, transitions |-> <<>>, on_exit |-> <<>>, on_enter |-> <<>>,
     init_transitions |-> TRUE, log_transitions |-> FALSE]

\* StateMachine::metadata_mut
metadata_mut(m, ty) == [m EXCEPT !.states = @ \cup {ty}]

\* StateMachine::with_state
with_state(m, s) == metadata_mut(m, s)

\* A slip in trans_builder: the metadata of Next is not created.
trans_builder_no_next(m, prev, trigger, build) ==
    LET m1 == metadata_mut(m, TypeIdOf(prev))
    IN [m1 EXCEPT
          !.transitions = Append(@, [src |-> prev, trig |-> trigger, build |-> build]),
          !.init_transitions = TRUE]

\* StateMachine::trans_builder; build = [next |-> target TypeId, val |-> token
\* of the value the builder returns]: the builder is a system whose output is
\* Next itself
trans_builder(m, prev, trigger, build) ==
    LET m1 == metadata_mut(metadata_mut(m, TypeIdOf(prev)), build.next)
    IN [m1 EXCEPT
          !.transitions = Append(@, [src |-> prev, trig |-> trigger, build |-> build]),
          !.init_transitions = TRUE]

\* StateMachine::trans: the builder clones the given state value
trans(m, prev, trigger, state) ==
    trans_builder(m, prev, trigger,
                  [next |-> state.ty, val |-> state.val])

\* StateMachine::on_enter / command_on_enter
on_enter(m, nextF, currentF, ev) ==
    [m EXCEPT !.on_enter = Append(@, [next |-> nextF, current |-> currentF, ev |-> ev])]

\* StateMachine::on_exit / command_on_exit
on_exit(m, currentF, nextF, ev) ==
    [m EXCEPT !.on_exit = Append(@, [current |-> currentF, next |-> nextF, ev |-> ev])]

\* StateMachine::set_trans_logging
set_trans_logging(m, b) == [m EXCEPT !.log_transitions = b]

(* ----------------------------- triggers ------------------------------- *)
\* A slip in done: any Done marker counts, whatever its variant.
done_any_variant(expected, e, w) == "Done" \in DOMAIN w.comps[e]

\* done(expected): the system the trigger is made of. `expected` is "None",
\* "Success" or "Failure"; the entity's Done component, if any, holds its
\* variant.
done(expected, e, w) ==
    IF "Done" \in DOMAIN w.comps[e]
    THEN expected = "None" \/ w.comps[e]["Done"] = expected
    ELSE FALSE

\* EntityTrigger::check of the triggers used here, against a read-only world:
\* ActionState::just_pressed of the entity's ActionState<A> component, for
\* the one action of the model
just_pressed(e, w) == w.comps[e]["ActionState"] = "JustPressed"

\* near_player of examples/chase.rs: `distance <= 300.`
NearRange == 300

\* The unit value ()
Unit == "()"

\* `always`, the test trigger `resource_present`, done(expected),
\* `peer_in_B`, a system that queries the other entities for state B,
\* near_player, and the input triggers JustPressedTrigger(a),
\* PressedTrigger(a) and ReleasedTrigger(a).
check_trigger(trigger, e, w) ==
    CASE trigger = "always" -> TRUE
      [] trigger = "near" -> w.dist <= NearRange
      [] trigger = "resource_present" -> w.res
      [] trigger = "peer_in_B" ->
           \E f \in DOMAIN w.comps : f # e /\ "B" \in DOMAIN w.comps[f]
      [] trigger = "done" -> done("None", e, w)
      [] trigger = "done_success" -> done("Success", e, w)
      [] trigger = "done_failure" -> done("Failure", e, w)
      [] trigger = "just_pressed" -> just_pressed(e, w)
      [] trigger = "pressed" -> just_pressed(e, w)
      [] trigger = "released" -> just_pressed(e, w)
      [] OTHER -> FALSE

\* A slip in the conversion of the trigger's outcome: Err taken for Ok.
check_inverted(t, e, w) == ~check_trigger(t.trig, e, w)

\* TransitionImpl::check: Some(closure, TypeId of Next) iff the trigger is Ok
check(t, e, w) == check_trigger(t.trig, e, w)

\* The `out` the closure of TransitionImpl::check captures: the Ok value of
\* the trigger's outcome, the distance for near_player and () for a trigger
\* that returns a bool
ok_payload(trigger, e, w) == IF trigger = "near" THEN w.dist ELSE Unit

\* actors.get(entity) of an input trigger is Err: the entity carries no
\* ActionState<A>, and unwrap_or_else panics
missing_action_state(t, e, w) ==
    /\ t.trig \in {"just_pressed", "pressed", "released"}
    /\ "ActionState" \notin DOMAIN w.comps[e]

(* --------------------------- StateMachine::run ------------------------ *)
\* A log entry for entity e: `at` is the set of components e carries when
\* the step is taken.
EvAt(w, op, e, i, s) ==
    [op |-> op, e |-> e, i |-> i, s |-> s, at |-> DOMAIN w.comps[e]]

\* A slip that checks every candidate's trigger before picking the first hit.
find_map_eager(ts, i, current, w, e) ==
    LET cands == SelectSeq([j \in 1..Len(ts) |-> j],
                           LAMBDA j : j >= i /\ matches(ts[j].src, current))
        hits == {j \in i..Len(ts) : matches(ts[j].src, current) /\ check(ts[j], e, w)}
    IN [win |-> IF hits = {} THEN 0 ELSE CHOOSE j \in hits : \A k \in hits : j <= k,
        checked |-> cands]

\* A slip in the order of evaluation: the last hit wins.
find_map_last(ts, i, current, w, e) ==
    LET hits == {j \in i..Len(ts) : matches(ts[j].src, current) /\ check(ts[j], e, w)}
    IN [win |-> IF hits = {} THEN 0 ELSE CHOOSE j \in hits : \A k \in hits : k <= j,
        checked |-> SelectSeq([j \in 1..Len(ts) |-> j],
                              LAMBDA j : j >= i /\ matches(ts[j].src, current))]

\* A slip in the source filter: the source's TypeId is compared with the
\* current state, so a wildcard source never matches.
find_map_exact(ts, i, current, w, e) ==
    LET cands == {j \in i..Len(ts) : TypeIdOf(ts[j].src) = current}
        hits == {j \in cands : check(ts[j], e, w)}
        win == IF hits = {} THEN 0 ELSE CHOOSE j \in hits : \A k \in hits : j <= k
    IN [win |-> win,
        checked |-> SelectSeq([j \in 1..Len(ts) |-> j],
                              LAMBDA j : j \in cands /\ (win = 0 \/ j <= win))]

\* Another order of evaluation: the transitions of the current state first,
\* the wildcard transitions after them.
find_map_specific_first(ts, i, current, w, e) ==
    LET hit(j) == matches(ts[j].src, current) /\ check(ts[j], e, w)
        spec == {j \in i..Len(ts) : ts[j].src.k = "is" /\ hit(j)}
        wild == {j \in i..Len(ts) : ts[j].src.k # "is" /\ hit(j)}
        least(S) == CHOOSE j \in S : \A k \in S : j <= k
        win == IF spec # {} THEN least(spec)
               ELSE IF wild # {} THEN least(wild) ELSE 0
    IN [win |-> win, checked |-> IF win = 0 THEN <<>> ELSE <<win>>]

\* A slip that treats the builder's result as optional: a candidate whose
\* trigger succeeded is passed over when another hit follows it.
find_map_passes_over(ts, i, current, w, e) ==
    LET hits == {j \in i..Len(ts) : matches(ts[j].src, current) /\ check(ts[j], e, w)}
        least(S) == CHOOSE j \in S : \A k \in S : j <= k
        rest == hits \ {least(hits)}
        win == IF hits = {} THEN 0
               ELSE IF rest = {} THEN least(hits) ELSE least(rest)
    IN [win |-> win,
        checked |-> SelectSeq([j \in 1..Len(ts) |-> j],
                              LAMBDA j : j >= i /\ matches(ts[j].src, current)
                                                /\ (win = 0 \/ j <= win))]

\* transitions.iter_mut().filter(matches(current)).find_map(check): the first
\* transition, in registration order, whose source filter matches `current`
\* and whose check is Some; `checked` lists the transitions whose trigger ran.
\* A check that panics ends the iteration: it is the last one made.
RECURSIVE find_map(_, _, _, _, _)
find_map(ts, i, current, w, e) ==
    IF i > Len(ts) THEN [win |-> 0, checked |-> <<>>]
    ELSE IF ~matches(ts[i].src, current) THEN find_map(ts, i + 1, current, w, e)
    ELSE IF missing_action_state(ts[i], e, w) THEN [win |-> 0, checked |-> <<i>>]
    ELSE IF check(ts[i], e, w) THEN [win |-> i, checked |-> <<i>>]
    ELSE LET r == find_map(ts, i + 1, current, w, e)
         IN [win |-> r.win, checked |-> <<i>> \o r.checked]

\* EntityState::remove(entity, world, curr): takes the outgoing state off the
\* entity. A concrete Prev removes its own component, a wildcard removes `curr`.
remove(prev, ce, curr) ==
    IF prev.k = "is" THEN Without(ce, TypeIdOf(prev)) ELSE Without(ce, curr)

\* The slip the self-transition test guards against: insert, then remove.
apply_trans_insert_first(t, ce, curr) ==
    <<[op |-> "build", ce |-> ce],
      [op |-> "insert", ce |-> With(ce, t.build.next, t.build.val)],
      [op |-> "remove",
       ce |-> remove(t.src, With(ce, t.build.next, t.build.val), curr)]>>

\* A slip that leaves the outgoing state on the entity.
apply_trans_no_remove(t, ce, curr) ==
    <<[op |-> "build", ce |-> ce],
      [op |-> "insert", ce |-> With(ce, t.build.next, t.build.val)]>>

\* A slip that runs the builder while the outgoing state is still attached.
apply_trans_build_first(t, ce, curr) ==
    <<[op |-> "build", ce |-> ce],
      [op |-> "remove", ce |-> remove(t.src, ce, curr)],
      [op |-> "insert",
       ce |-> With(remove(t.src, ce, curr), t.build.next, t.build.val)]>>

\* The closure TransitionImpl::check returns: remove Prev, run the builder on
\* it, insert the built Next. Each step with the entity's components after it.
apply_trans(t, ce, curr) ==
    <<[op |-> "remove", ce |-> remove(t.src, ce, curr)],
      [op |-> "build", ce |-> remove(t.src, ce, curr)],
      [op |-> "insert",
       ce |-> With(remove(t.src, ce, curr), t.build.next, t.build.val)]>>

\* A slip in the order of the filters: on_enter's pair read as on_exit's.
enter_matching_swapped(m, current, next_state) ==
    SelectSeq([i \in 1..Len(m.on_enter) |-> i],
              LAMBDA i : matches(m.on_enter[i].next, current)
                         /\ matches(m.on_enter[i].current, next_state))

\* A slip in the exit filter: only the state left is looked at.
exit_matching_current_only(m, current, next_state) ==
    SelectSeq([i \in 1..Len(m.on_exit) |-> i],
              LAMBDA i : matches(m.on_exit[i].current, current))

\* A slip that takes a transition to the state already held for no change:
\* no exit hook is triggered for it.
exit_matching_not_self(m, current, next_state) ==
    IF current = next_state THEN <<>>
    ELSE SelectSeq([i \in 1..Len(m.on_exit) |-> i],
                   LAMBDA i : matches(m.on_exit[i].current, current)
                              /\ matches(m.on_exit[i].next, next_state))

\* Indices of the on_exit hooks whose filters match (current, next_state)
exit_matching(m, current, next_state) ==
    SelectSeq([i \in 1..Len(m.on_exit) |-> i],
              LAMBDA i : matches(m.on_exit[i].current, current)
                         /\ matches(m.on_exit[i].next, next_state))

\* Indices of the on_enter hooks whose filters match (next_state, current)
enter_matching(m, current, next_state) ==
    SelectSeq([i \in 1..Len(m.on_enter) |-> i],
              LAMBDA i : matches(m.on_enter[i].next, next_state)
                         /\ matches(m.on_enter[i].current, current))

\* A slip in the queue: a hook's event is pushed on the front, so the events
\* are applied last in, first out.
trigger_hooks_lifo(w, e, kind, hooks, idx) ==
    [w EXCEPT
       !.queue = [n \in 1..Len(idx) |->
                    [ev |-> hooks[idx[Len(idx) + 1 - n]].ev, e |-> e]] \o @,
       !.log = @ \o [n \in 1..Len(idx) |-> EvAt(w, kind, e, idx[n], hooks[idx[n]].ev)],
       !.hookRuns[e][kind] =
           [i \in 1..Len(hooks) |->
               @[i] + Cardinality({n \in 1..Len(idx) : idx[n] = i})]]

\* OnEvent::trigger for the hooks `idx` of list `kind`: each queues its event
\* on world.commands() and is counted.
trigger_hooks(w, e, kind, hooks, idx) ==
    [w EXCEPT
       !.queue = @ \o [n \in 1..Len(idx) |-> [ev |-> hooks[idx[n]].ev, e |-> e]],
       !.log = @ \o [n \in 1..Len(idx) |-> EvAt(w, kind, e, idx[n], hooks[idx[n]].ev)],
       !.hookRuns[e][kind] =
           [i \in 1..Len(hooks) |->
               @[i] + Cardinality({n \in 1..Len(idx) : idx[n] = i})]]

\* trans(world, current): the steps of the closure, applied to the entity;
\* names = <<current, next_state, the TransCtx the builder is run on>>
RECURSIVE do_steps(_, _, _, _, _)
do_steps(w, e, win, steps, names) ==
    IF steps = <<>> THEN w
    ELSE LET st == Head(steps)
             w1 == [w EXCEPT !.comps[e] = st.ce]
         IN do_steps(
              [w1 EXCEPT !.log = Append(@, EvAt(IF st.op = "build" THEN w ELSE w1,
                                                st.op, e, win,
                                                CASE st.op = "remove" -> names[1]
                                                  [] st.op = "build" -> names[3]
                                                  [] OTHER -> names[2]))],
              e, win, Tail(steps), names)

\* A slip in the closure: the builder is handed a fresh Prev instead of the
\* state taken off the entity.
TransCtx_default_prev(t, e, w, curr) ==
    [prev |-> IF t.src.k = "is" THEN 0 ELSE TypeIdOf(t.src),
     out |-> ok_payload(t.trig, e, w), entity |-> e]

\* TransCtx { prev, out, entity }: prev is what Prev::remove returns, the
\* value of the state taken off the entity for a concrete Prev and the
\* filter itself for a wildcard; out is the payload of the check
TransCtx(t, e, w, curr) ==
    [prev |-> IF t.src.k = "is" THEN w.comps[e][curr] ELSE TypeIdOf(t.src),
     out |-> ok_payload(t.trig, e, w), entity |-> e]

\* self.builder.run(ctx, world): the value of Next the builder returns. The
\* builder of `trans` clones the registered state; a builder registered with
\* trans_builder may build Next from ctx.prev or from ctx.out.
builder_run(build, ctx) ==
    IF "from" \notin DOMAIN build THEN build.val
    ELSE IF build.from = "prev" THEN ctx.prev
    ELSE ctx.out

\* What the builder system does to the world besides returning Next, applied
\* when the system has run: nothing, or, for a builder registered with an
\* `effect`, commands.entity(target).remove::<StateMachine>() or
\* commands.entity(target).despawn(). Commands::entity panics for an entity
\* that does not exist (any more), so an effect on a despawned target panics
\* the tick.
builder_effect(w, e, win, build) ==
    IF "effect" \notin DOMAIN build THEN w
    ELSE LET target == build.effect.target
             w1 == [w EXCEPT !.log = Append(@, EvAt(w, "effect", e, win, build.effect))]
         IN IF target \notin DOMAIN w.comps
            THEN [w EXCEPT !.panicked = TRUE]
            ELSE IF build.effect.op = "remove_machine"
            THEN [w1 EXCEPT !.store = Without(@, target)]
            ELSE [w1 EXCEPT !.store = Without(@, target),
                            !.comps = Without(@, target)]

\* A slip in the lookup of the current state: any state component on the
\* entity counts, registered in the machine or not.
attached_unregistered(m, ce) == {s \in States : s \in DOMAIN ce}

\* The registered states attached to the entity
attached(m, ce) == {s \in m.states : s \in DOMAIN ce}

\* A slip in the arguments of the log line: from and to change places.
info_line_swapped(e, from, to) == [entity |-> e, from |-> to, to |-> from]

\* info!("{entity:?} transitioned from {} to {}", from.name, to.name): what
\* the line names
info_line(e, from, to) == [entity |-> e, from |-> from, to |-> to]

\* A slip in the order of the swap: the exit hooks run after the swap.
swap_exit_late(w, e, current, win) ==
    LET m == w.machine[e]
        t == m.transitions[win]
        next_state == t.build.next
        w1 == do_steps(w, e, win, apply_trans(t, w.comps[e], current),
                       <<current, next_state, TransCtx(t, e, w, current)>>)
        w2 == trigger_hooks(w1, e, "exit", m.on_exit,
                            exit_matching(m, current, next_state))
        w3 == trigger_hooks(w2, e, "enter", m.on_enter,
                            enter_matching(m, current, next_state))
    IN [w3 EXCEPT !.machine[e].init_transitions = TRUE]

\* A slip in the dirty flag: it is kept in one place for all machines, so a
\* transition of one entity marks every machine.
swap_marks_all(w, e, current, win) ==
    LET m == w.machine[e]
        t == m.transitions[win]
        next_state == t.build.next
        w1 == trigger_hooks(w, e, "exit", m.on_exit,
                            exit_matching(m, current, next_state))
        ctx == TransCtx(t, e, w, current)
        next == [t EXCEPT !.build.val = builder_run(t.build, ctx)]
        steps == apply_trans(next, w1.comps[e], current)
        ran == CHOOSE n \in 1..Len(steps) : steps[n].op = "build"
        built == builder_effect(do_steps(w1, e, win, SubSeq(steps, 1, ran),
                                         <<current, next_state, ctx>>),
                                e, win, t.build)
        w2 == do_steps(built, e, win, SubSeq(steps, ran + 1, Len(steps)),
                       <<current, next_state, ctx>>)
        w3 == trigger_hooks(w2, e, "enter", m.on_enter,
                            enter_matching(m, current, next_state))
        w4 == IF m.log_transitions
              THEN [w3 EXCEPT !.log = Append(@, EvAt(w3, "info", e, win,
                                                     info_line(e, current, next_state)))]
              ELSE w3
    IN IF next_state \notin m.states
       THEN [w EXCEPT !.panicked = TRUE]
       ELSE IF built.panicked
       THEN built
       ELSE IF e \notin DOMAIN built.comps
       THEN [built EXCEPT !.panicked = TRUE]
       ELSE [w4 EXCEPT !.machine = [x \in DOMAIN @ |->
                                      [@[x] EXCEPT !.init_transitions = TRUE]]]

\* The tail of run, once a transition has won: the matching exit hooks,
\* trans(world, current), the matching enter hooks, the log line, the dirty
\* flag.
swap(w, e, current, win) ==
    LET m == w.machine[e]
        t == m.transitions[win]
        next_state == t.build.next
        w1 == trigger_hooks(w, e, "exit", m.on_exit,
                            exit_matching(m, current, next_state))
        ctx == TransCtx(t, e, w, current)
        next == [t EXCEPT !.build.val = builder_run(t.build, ctx)]
        steps == apply_trans(next, w1.comps[e], current)
        ran == CHOOSE n \in 1..Len(steps) : steps[n].op = "build"
        built == builder_effect(do_steps(w1, e, win, SubSeq(steps, 1, ran),
                                         <<current, next_state, ctx>>),
                                e, win, t.build)
        w2 == do_steps(built, e, win, SubSeq(steps, ran + 1, Len(steps)),
                       <<current, next_state, ctx>>)
        w3 == trigger_hooks(w2, e, "enter", m.on_enter,
                            enter_matching(m, current, next_state))
        w4 == IF m.log_transitions
              THEN [w3 EXCEPT !.log = Append(@, EvAt(w3, "info", e, win,
                                                     info_line(e, current, next_state)))]
              ELSE w3
    IN IF next_state \notin m.states
       THEN [w EXCEPT !.panicked = TRUE]
       ELSE IF built.panicked
       THEN built
       ELSE IF e \notin DOMAIN built.comps
       THEN [built EXCEPT !.panicked = TRUE]
       ELSE [w4 EXCEPT !.machine[e].init_transitions = TRUE]

\* A slip that takes the current state off the entity before a transition
\* is known to have won.
run_takes_state(w, e) ==
    LET m == w.machine[e]
        att == attached(m, w.comps[e])
    IN IF att = {}
       THEN [w EXCEPT !.log = Append(@, EvAt(w, "error_no_state", e, 0, ""))]
       ELSE IF Cardinality(att) > 1
       THEN [w EXCEPT !.log = Append(@, EvAt(w, "error_multiple_states", e, 0, ""))]
       ELSE LET current == CHOOSE s \in att : TRUE
                r == find_map(m.transitions, 1, current, w, e)
                w1 == [w EXCEPT
                         !.log = @ \o [n \in 1..Len(r.checked) |->
                                         EvAt(w, "check", e, r.checked[n], current)]]
            IN IF r.win = 0
               THEN [w1 EXCEPT !.comps[e] = Without(@, current)]
               ELSE swap(w1, e, current, r.win)

\* A slip that goes on with the first attached state it finds when the entity
\* is in several.
run_first_state(w, e) ==
    LET m == w.machine[e]
        att == attached(m, w.comps[e])
    IN IF att = {}
       THEN [w EXCEPT !.log = Append(@, EvAt(w, "error_no_state", e, 0, ""))]
       ELSE LET current == CHOOSE s \in att : TRUE
                r == find_map(m.transitions, 1, current, w, e)
                w1 == [w EXCEPT
                         !.log = @ \o [n \in 1..Len(r.checked) |->
                                         EvAt(w, "check", e, r.checked[n], current)]]
            IN IF r.win = 0 THEN w1 ELSE swap(w1, e, current, r.win)

\* A slip that marks the machine dirty on every evaluation, also when no
\* transition is taken.
run_marks_dirty(w, e) ==
    LET m == w.machine[e]
        att == attached(m, w.comps[e])
    IN IF att = {}
       THEN [w EXCEPT !.log = Append(@, EvAt(w, "error_no_state", e, 0, ""))]
       ELSE IF Cardinality(att) > 1
       THEN [w EXCEPT !.log = Append(@, EvAt(w, "error_multiple_states", e, 0, ""))]
       ELSE LET current == CHOOSE s \in att : TRUE
                r == find_map(m.transitions, 1, current, w, e)
                w1 == [w EXCEPT
                         !.log = @ \o [n \in 1..Len(r.checked) |->
                                         EvAt(w, "check", e, r.checked[n], current)]]
            IN IF r.win = 0
               THEN [w1 EXCEPT !.machine[e].init_transitions = TRUE]
               ELSE swap(w1, e, current, r.win)

\* A slip that takes a state of the machine's own table for the current one
\* instead of looking the attached state up on the entity.
run_assumed_state(w, e) ==
    LET m == w.machine[e]
        att == attached(m, w.comps[e])
    IN IF att = {}
       THEN [w EXCEPT !.log = Append(@, EvAt(w, "error_no_state", e, 0, ""))]
       ELSE IF Cardinality(att) > 1
       THEN [w EXCEPT !.log = Append(@, EvAt(w, "error_multiple_states", e, 0, ""))]
       ELSE LET current == CHOOSE s \in m.states : TRUE
                r == find_map(m.transitions, 1, current, w, e)
                w1 == [w EXCEPT
                         !.log = @ \o [n \in 1..Len(r.checked) |->
                                         EvAt(w, "check", e, r.checked[n], current)]]
            IN IF r.win = 0 THEN w1 ELSE swap(w1, e, current, r.win)

\* A slip that takes a trigger that cannot read its input for one that did
\* not fire: nothing stops, the transition is tried again on the next tick.
run_missing_is_failure(w, e) ==
    LET m == w.machine[e]
        att == attached(m, w.comps[e])
    IN IF att = {}
       THEN [w EXCEPT !.log = Append(@, EvAt(w, "error_no_state", e, 0, ""))]
       ELSE IF Cardinality(att) > 1
       THEN [w EXCEPT !.log = Append(@, EvAt(w, "error_multiple_states", e, 0, ""))]
       ELSE LET current == CHOOSE s \in att : TRUE
                r == find_map(m.transitions, 1, current, w, e)
                w1 == [w EXCEPT
                         !.log = @ \o [n \in 1..Len(r.checked) |->
                                         EvAt(w, "check", e, r.checked[n], current)]]
            IN IF r.win = 0 THEN w1 ELSE swap(w1, e, current, r.win)

\* StateMachine::run; a panic in a trigger's check unwinds through it, and
\* world.entity(entity) panics for an entity that has been despawned
run(w, e) ==
    LET m == w.machine[e]
        att == attached(m, w.comps[e])
    IN IF e \notin DOMAIN w.comps
       THEN IF m.states = {}
            THEN [w EXCEPT !.log = Append(@, [op |-> "error_no_state", e |-> e, i |-> 0,
                                              s |-> "", at |-> {}])]
            ELSE [w EXCEPT !.panicked = TRUE]
       ELSE IF att = {}
       THEN [w EXCEPT !.log = Append(@, EvAt(w, "error_no_state", e, 0, ""))]
       ELSE IF Cardinality(att) > 1
       THEN [w EXCEPT !.log = Append(@, EvAt(w, "error_multiple_states", e, 0, ""))]
       ELSE LET current == CHOOSE s \in att : TRUE
                r == find_map(m.transitions, 1, current, w, e)
                w1 == [w EXCEPT
                         !.log = @ \o [n \in 1..Len(r.checked) |->
                                         EvAt(w, "check", e, r.checked[n], current)]]
                last == r.checked[Len(r.checked)]
            IN IF r.checked # <<>> /\ missing_action_state(m.transitions[last], e, w)
               THEN [w1 EXCEPT !.panicked = TRUE,
                               !.log = Append(@, EvAt(w, "panic", e, last,
                                                      m.transitions[last].trig))]
               ELSE IF r.win = 0 THEN w1 ELSE swap(w1, e, current, r.win)

(* ------------------------ the transition system ----------------------- *)
\* A slip that initializes the transitions on every tick, dirty or not.
init_transitions_always(w, e) ==
    LET m == w.machine[e]
    IN [w EXCEPT
          !.log = @ \o [i \in 1..Len(m.transitions) |-> EvAt(w, "init", e, i, "")],
          !.machine[e].init_transitions = FALSE]

\* StateMachine::init_transitions: a dirty machine inits every transition
init_transitions(w, e) ==
    LET m == w.machine[e]
    IN IF ~m.init_transitions THEN w
       ELSE [w EXCEPT
               !.log = @ \o [i \in 1..Len(m.transitions) |-> EvAt(w, "init", e, i, "")],
               !.machine[e].init_transitions = FALSE]

\* for (_, machine) in borrowed_machines.iter_mut(): init_transitions
RECURSIVE init_all(_, _)
init_all(w, order) ==
    IF order = <<>> THEN w ELSE init_all(init_transitions(w, Head(order)), Tail(order))

\* A slip that keeps running a machine while a transition fires.
RECURSIVE run_all_again(_, _)
run_all_again(w, order) ==
    IF order = <<>> \/ w.panicked THEN w
    ELSE run_all_again(run(run(w, Head(order)), Head(order)), Tail(order))

\* A slip that gives the tick up at the first entity found in no state or in
\* several.
RECURSIVE run_all_until_error(_, _)
run_all_until_error(w, order) ==
    IF order = <<>> \/ w.panicked
       \/ \E n \in 1..Len(w.log) :
            w.log[n].op \in {"error_no_state", "error_multiple_states"}
    THEN w
    ELSE run_all_until_error(run(w, Head(order)), Tail(order))

\* for &mut (entity, ref mut machine) in &mut borrowed_machines: run
RECURSIVE run_all(_, _)
run_all(w, order) ==
    IF order = <<>> \/ w.panicked THEN w ELSE run_all(run(w, Head(order)), Tail(order))

\* The world applies the commands queued on world.commands(), in order.
RECURSIVE apply_queue(_)
apply_queue(w) ==
    IF w.queue = <<>> THEN w
    ELSE LET c == Head(w.queue)
             w1 == [w EXCEPT !.queue = Tail(@),
                             !.log = Append(@, EvAt(w, "apply", c.e, 0, c.ev))]
         IN apply_queue(
              CASE c.ev = "insert_marker" -> [w1 EXCEPT !.markers = @ \cup {c.e}]
                [] c.ev = "remove_marker" -> [w1 EXCEPT !.markers = @ \ {c.e}]
                [] OTHER -> [w1 EXCEPT !.cmdRuns[c.ev] = @ + 1])

\* std::mem::replace(machine.as_mut(), stub) over the query: the machines
\* left in the world are stubs, the machines taken are `borrowed`.
check_out(store, order) ==
    [store |-> [e \in DOMAIN store |-> Default],
     borrowed |-> [e \in {order[n] : n \in 1..Len(order)} |-> store[e]]]

\* A slip in the put-back: each machine goes to the entity after its own.
RECURSIVE put_back_shifted(_, _, _)
put_back_shifted(store, borrowed, order) ==
    IF order = <<>> THEN store
    ELSE LET to == IF Len(order) > 1 THEN order[2] ELSE Head(order)
         IN put_back_shifted([store EXCEPT ![to] = borrowed[Head(order)]],
                             [borrowed EXCEPT ![to] = borrowed[Head(order)],
                                              ![Head(order)] = borrowed[to]],
                             Tail(order))

\* for (entity, borrowed_machine) in borrowed_machines: *machine = borrowed_machine;
\* `continue` for an entity machine_query.get_mut no longer finds
RECURSIVE put_back(_, _, _)
put_back(store, borrowed, order) ==
    IF order = <<>> THEN store
    ELSE IF Head(order) \notin DOMAIN store THEN put_back(store, borrowed, Tail(order))
    ELSE put_back([store EXCEPT ![Head(order)] = borrowed[Head(order)]],
                  borrowed, Tail(order))

\* The first statement of `transition`: every machine of the query is taken,
\* in the query's order. From here to the put-back w.machine holds the
\* borrowed machines and w.store the StateMachine components left in the world.
checked_out(w, order) ==
    LET b == check_out(w.machine, order)
    IN [w EXCEPT
          !.machine = b.borrowed,
          !.store = b.store,
          !.log = @ \o [n \in 1..Len(order) |-> EvAt(w, "checkout", order[n], 0, "")]]

\* The last loop of `transition`: each borrowed machine goes back to its
\* entity, or is dropped when the entity has no StateMachine any more.
committed(w, order) ==
    [w EXCEPT
       !.machine = put_back(w.store, w.machine, order),
       !.log = @ \o [n \in 1..Len(order) |->
                       IF order[n] \in DOMAIN w.store
                       THEN EvAt(w, "commit", order[n], 0, "")
                       ELSE [op |-> "discard", e |-> order[n], i |-> 0, s |-> "",
                             at |-> {}]]]

\* A slip in the phases: each machine is initialized right before it is run.
transition_interleaved(w, order) ==
    LET each[n \in 0..Len(order)] ==
            IF n = 0 THEN checked_out(w, order)
            ELSE IF each[n - 1].panicked THEN each[n - 1]
            ELSE run(init_transitions(each[n - 1], order[n]), order[n])
        w2 == each[Len(order)]
    IN IF w2.panicked THEN w2 ELSE apply_queue(committed(w2, order))

\* The `transition` system: check every machine out of the world, init the
\* dirty ones, run each, put them back; the queued commands are applied after.
transition(w, order) ==
    LET w1 == init_all(checked_out(w, order), order)
        w2 == run_all(w1, order)
    IN IF w2.panicked THEN w2 ELSE apply_queue(committed(w2, order))

Orders(S) == {o \in [1..Cardinality(S) -> S] : \A i, j \in 1..Cardinality(S) : o[i] = o[j] => i = j}

World ==
    [machine |-> machine, comps |-> comps, res |-> res, hookRuns |-> hookRuns,
     cmdRuns |-> cmdRuns, markers |-> markers, panicked |-> panicked,
     queue |-> <<>>, log |-> <<>>, store |-> <<>>, dist |-> dist]

(* ------------------------------ actions ------------------------------- *)
\* No trigger is being checked on its own
NoTrigger == trig = <<>> /\ dist = 0 /\ out = <<>> /\ axis = <<>>

Building == pool # {} /\ ~panicked

FiltersOf(S) == {IsState(s) : s \in S} \cup {AnyState}

NHooks(m) == Len(m.on_exit) + Len(m.on_enter)

BuildFrame ==
    UNCHANGED <<pool, machine, comps, res, hookRuns, cmdRuns, markers, ticks,
                spawned, pre, panicked, log,
                   trig, dist, out, axis>>

\* .with_state::<S>()
WithState ==
    /\ Building
    /\ \E s \in HookStates :
         /\ s \notin builder.states
         /\ builder' = with_state(builder, s)
    /\ BuildFrame

\* .trans::<S, _>(trigger, state): the registered state value is told apart
\* by the token of its registration
TransOf(max, S, trigs) ==
    /\ Building
    /\ Len(builder.transitions) < max
    /\ \E src \in FiltersOf(S), trigger \in trigs, target \in S :
         builder' = trans(builder, src, trigger,
                          [ty |-> target, val |-> Len(builder.transitions) + 1])
    /\ BuildFrame

Trans == TransOf(MaxTrans, BuildStates, Triggers)

TransAlways == TransOf(MaxHookTrans, HookStates, {"always"})

\* .command_on_enter::<Next, Current>(cmd1)
OnEnter ==
    /\ Building
    /\ NHooks(builder) < MaxHooks
    /\ \E nextF \in FiltersOf(HookStates), currentF \in FiltersOf(HookStates) :
         builder' = on_enter(builder, nextF, currentF, "cmd1")
    /\ BuildFrame

\* .command_on_exit::<Current, Next>(cmd2)
OnExit ==
    /\ Building
    /\ NHooks(builder) < MaxHooks
    /\ \E currentF \in FiltersOf(HookStates), nextF \in FiltersOf(HookStates) :
         builder' = on_exit(builder, currentF, nextF, "cmd2")
    /\ BuildFrame

\* world.spawn((machine, state)): the entity gets the machine and one state
\* component, carrying the spawn's data token 0
SpawnIn(S) ==
    /\ Building
    /\ \E e \in pool, s \in S :
         /\ pool' = pool \ {e}
         /\ machine' = With(machine, e, builder)
         /\ comps' = With(comps, e, [x \in {s} |-> 0])
         /\ spawned' = With(spawned, e, s)
         /\ hookRuns' = With(hookRuns, e,
                             [exit |-> [i \in 1..Len(builder.on_exit) |-> 0],
                              enter |-> [i \in 1..Len(builder.on_enter) |-> 0]])
    /\ builder' = Default
    /\ UNCHANGED <<res, cmdRuns, markers, ticks, pre, panicked, log,
                   trig, dist, out, axis>>

Spawn == SpawnIn(BuildStates)

SpawnHook == SpawnIn({"A"})

\* world.insert_resource / remove_resource by the application, between ticks
SetResource ==
    /\ pool = {} /\ ~panicked
    /\ ticks < MaxTicks
    /\ res' = ~res
    /\ UNCHANGED <<builder, pool, machine, comps, hookRuns, cmdRuns, markers,
                   ticks, spawned, pre, panicked, log,
                   trig, dist, out, axis>>

\* app.update() once the scene is spawned: one run of the `transition` system
Tick ==
    /\ pool = {} /\ ~panicked
    /\ ticks < MaxTicks
    /\ \E order \in Orders(DOMAIN machine) :
         LET w == transition(World, order)
         IN /\ machine' = w.machine
            /\ comps' = w.comps
            /\ hookRuns' = w.hookRuns
            /\ cmdRuns' = w.cmdRuns
            /\ markers' = w.markers
            /\ panicked' = w.panicked
            /\ log' = w.log
    /\ ticks' = ticks + 1
    /\ pre' = [comps |-> comps, res |-> res, hookRuns |-> hookRuns,
               cmdRuns |-> cmdRuns, machine |-> machine]
    /\ UNCHANGED <<builder, pool, res, spawned, trig, dist, out, axis>>

NoPre == [comps |-> <<>>, res |-> FALSE, hookRuns |-> <<>>,
          cmdRuns |-> [c \in Commands |-> 0], machine |-> <<>>]

\* A fresh app: nothing built, nothing spawned
Init ==
    /\ builder = Default
    /\ pool = {"e1"}
    /\ machine = <<>>
    /\ comps = <<>>
    /\ res = FALSE
    /\ hookRuns = <<>>
    /\ cmdRuns = [c \in Commands |-> 0]
    /\ markers = {}
    /\ ticks = 0
    /\ spawned = <<>>
    /\ pre = NoPre
    /\ panicked = FALSE
    /\ log = <<>>
    /\ NoTrigger

\* The machine test_state_machine builds: the chain A -> B -> C -> D on
\* `always`, cmd1 on entering B from anything, cmd2 on entering anything.
ChainMachine ==
    LET m1 == trans(Default, IsState("A"), "always", [ty |-> "B", val |-> 1])
        m2 == trans(m1, IsState("B"), "always", [ty |-> "C", val |-> 2])
        m3 == trans(m2, IsState("C"), "always", [ty |-> "D", val |-> 3])
        m4 == on_enter(m3, IsState("B"), AnyState, "cmd1")
        m5 == on_enter(m4, AnyState, AnyState, "cmd2")
    IN set_trans_logging(m5, TRUE)

\* test_state_machine after world.spawn((A, machine))
InitChain ==
    /\ builder = Default
    /\ pool = {}
    /\ machine = [e \in {"e1"} |-> ChainMachine]
    /\ comps = [e \in {"e1"} |-> [x \in {"A"} |-> 0]]
    /\ res \in BOOLEAN
    /\ hookRuns = [e \in {"e1"} |-> [exit |-> <<>>, enter |-> <<0, 0>>]]
    /\ cmdRuns = [c \in Commands |-> 0]
    /\ markers = {}
    /\ ticks = 0
    /\ spawned = [e \in {"e1"} |-> "A"]
    /\ pre = NoPre
    /\ panicked = FALSE
    /\ log = <<>>
    /\ NoTrigger

\* Machines built from transitions only
Next == Trans \/ Spawn \/ SetResource \/ Tick

Spec == (Init \/ InitChain) /\ [][Next]_vars

\* Machines built with hooks
NextHooks == TransAlways \/ OnEnter \/ OnExit \/ SpawnHook \/ Tick

SpecHooks == (Init \/ InitChain) /\ [][NextHooks]_vars

\* Machines built with with_state
NextInitial == WithState \/ TransAlways \/ SpawnHook \/ SetResource \/ Tick

SpecInitial == Init /\ [][NextInitial]_vars

(* ===================== properties of the engine ====================== *)
\* The entities with a machine, once the `transition` system has run
Ran == IF ticks > 0 THEN DOMAIN machine ELSE {}

\* The entity had exactly one registered state attached when the last tick began
PreOne(e) == Cardinality(attached(machine[e], pre.comps[e])) = 1

\* ... and this is that state
PreCur(e) == CHOOSE s \in attached(machine[e], pre.comps[e]) : TRUE

Ts(e) == machine[e].transitions

\* Transition i was a candidate in the last tick: its source matched
Cand(e, i) == matches(Ts(e)[i].src, PreCur(e))

\* Its trigger succeeded against the world the last tick found
Ok(e, i) == check_trigger(Ts(e)[i].trig, e, pre)

\* The candidates whose trigger succeeded
Hits(e) == {i \in 1..Len(Ts(e)) : Cand(e, i) /\ Ok(e, i)}

Least(S) == CHOOSE i \in S : \A j \in S : i <= j

\* Positions of the last tick's log where step `op` was taken for e
LogIdx(op, e) == {n \in 1..Len(log) : log[n].op = op /\ log[n].e = e}

\* The transitions that swapped e's state in the last tick
Fired(e) == {log[n].i : n \in LogIdx("insert", e)}

\* What taking transition i makes of the components the tick found
After(e, i) ==
    With(Without(pre.comps[e], PreCur(e)), Ts(e)[i].build.next, Ts(e)[i].build.val)

\* C1: in one tick the transition taken is the earliest-registered one among
\* those whose source matches the current state and whose trigger succeeds,
\* and none is taken when there is none; so of two transitions with the same
\* source and trigger and different targets the second is never taken.
C1_FirstRegisteredWins ==
    \A e \in Ran : PreOne(e) =>
        /\ IF Hits(e) = {}
           THEN Fired(e) = {} /\ comps[e] = pre.comps[e]
           ELSE Fired(e) = {Least(Hits(e))} /\ comps[e] = After(e, Least(Hits(e)))
        /\ \A i, j \in 1..Len(Ts(e)) :
             (i < j /\ Ts(e)[i].src = Ts(e)[j].src /\ Ts(e)[i].trig = Ts(e)[j].trig
                /\ Cand(e, i))
             => j \notin Fired(e)

\* C1's case: two transitions on the same source and trigger, different
\* targets, the trigger succeeded and the first was taken.
C1_Witness ==
    \E e \in Ran : \E i, j \in 1..Len(Ts(e)) :
        /\ PreOne(e) /\ i < j
        /\ Ts(e)[i].src = Ts(e)[j].src /\ Ts(e)[i].trig = Ts(e)[j].trig
        /\ Ts(e)[i].build.next # Ts(e)[j].build.next
        /\ Cand(e, i) /\ Ok(e, i)
        /\ Fired(e) = {i}
        /\ Ts(e)[i].build.next \in DOMAIN comps[e]

\* The state a machine of test_state_machine is in after n ticks from A
ChainAt(n) == IF n = 0 THEN "A" ELSE IF n = 1 THEN "B" ELSE IF n = 2 THEN "C" ELSE "D"

\* C2: at most one transition fires per entity per tick, also when the state
\* just entered has a transition whose trigger is already true: the tick ends
\* one step from where it began. The chain A->B->C->D of always-true
\* transitions is in its n-th state after n ticks, so in D after 3 ticks and
\* not before.
C2_OneTransitionPerTick ==
    \A e \in DOMAIN machine :
        /\ Cardinality(LogIdx("insert", e)) <= 1
        /\ Cardinality(LogIdx("remove", e)) <= 1
        /\ (ticks > 0 /\ PreOne(e)) =>
              \/ comps[e] = pre.comps[e]
              \/ \E i \in Hits(e) : comps[e] = After(e, i)
        /\ (Ts(e) = ChainMachine.transitions /\ spawned[e] = "A") =>
              /\ DOMAIN comps[e] = {ChainAt(ticks)}
              /\ ("D" \in DOMAIN comps[e] <=> ticks >= 3)

\* C2's case: the chain has been run for 3 ticks and its entity is in D,
\* having entered C (whose transition to D was already true) one tick before.
C2_Witness ==
    \E e \in DOMAIN machine :
        /\ Ts(e) = ChainMachine.transitions /\ spawned[e] = "A"
        /\ ticks = 3
        /\ DOMAIN pre.comps[e] = {"C"}
        /\ DOMAIN comps[e] = {"D"}

\* C3: an entity that has exactly one registered state attached before a
\* tick has exactly one attached after it, and so after every later tick.
C3_ExactlyOneState ==
    \A e \in DOMAIN machine :
        /\ (ticks > 0 /\ PreOne(e)) => Cardinality(attached(machine[e], comps[e])) = 1
        /\ spawned[e] \in machine[e].states
              => Cardinality(attached(machine[e], comps[e])) = 1

\* C3's case: an entity spawned in a registered state has changed state in
\* two ticks running and holds exactly one state.
C3_Witness ==
    \E e \in Ran :
        /\ spawned[e] \in machine[e].states
        /\ ticks >= 2
        /\ PreOne(e) /\ pre.comps[e] # [x \in {spawned[e]} |-> 0]
        /\ Fired(e) # {}
        /\ DOMAIN comps[e] # DOMAIN pre.comps[e]
        /\ Cardinality(attached(machine[e], comps[e])) = 1

\* C4: a self-transition (source state S, trigger succeeds, target S) leaves
\* the entity with S attached, carrying the data built for the incoming
\* state: removing the outgoing S does not take the inserted S.
C4_SelfTransitionKeepsState ==
    \A e \in Ran : \A i \in Fired(e) :
        (PreOne(e) /\ Ts(e)[i].build.next = PreCur(e)) =>
            /\ PreCur(e) \in DOMAIN comps[e]
            /\ comps[e][PreCur(e)] = Ts(e)[i].build.val
            /\ DOMAIN comps[e] = DOMAIN pre.comps[e]

\* C4's case: trans::<S>(always, S) has fired for an entity in S.
C4_Witness ==
    \E e \in Ran : \E i \in Fired(e) :
        /\ PreOne(e)
        /\ Ts(e)[i].src = IsState(PreCur(e))
        /\ Ts(e)[i].trig = "always"
        /\ Ts(e)[i].build.next = PreCur(e)
        /\ pre.comps[e][PreCur(e)] # Ts(e)[i].build.val
        /\ PreCur(e) \in DOMAIN comps[e]

\* C5: an entity spawned in state S with a machine that has no transitions
\* has exactly S attached, with the data it was spawned with, after one tick
\* and after any number of ticks.
C5_InitialStateStays ==
    \A e \in DOMAIN machine :
        Ts(e) = <<>> => comps[e] = [x \in {spawned[e]} |-> 0]

\* C5's case: StateMachine::default().with_state::<S>() spawned with S has
\* been run, found S and had nothing to do.
C5_Witness ==
    \E e \in Ran :
        /\ Ts(e) = <<>>
        /\ machine[e].states = {spawned[e]}
        /\ ticks >= 2
        /\ LogIdx("error_no_state", e) = {}
        /\ DOMAIN comps[e] = {spawned[e]}

\* C6: a transition whose trigger fails is evaluated again on every tick in
\* which the entity is in its source state and no earlier-registered
\* transition wins: its trigger is checked, the entity stays where it is if
\* that fails and nothing later wins, and goes to the target in the first tick
\* in which it succeeds.
C6_FailedTriggerRetried ==
    \A e \in Ran : \A i \in 1..Len(Ts(e)) :
        (PreOne(e) /\ Cand(e, i) /\ ~\E j \in Hits(e) : j < i) =>
            /\ \E n \in LogIdx("check", e) : log[n].i = i
            /\ Ok(e, i) => (Fired(e) = {i} /\ comps[e] = After(e, i))
            /\ Hits(e) = {} => (Fired(e) = {} /\ comps[e] = pre.comps[e])

\* C6's case: the entity sat in its spawn state through at least one tick in
\* which resource_present failed, and left for the target in the tick that
\* found the resource.
C6_Witness ==
    \E e \in Ran : \E i \in 1..Len(Ts(e)) :
        /\ ticks >= 2
        /\ spawned[e] \in machine[e].states
        /\ pre.comps[e] = [x \in {spawned[e]} |-> 0]
        /\ Ts(e)[i].trig = "resource_present"
        /\ Ts(e)[i].build.next # spawned[e]
        /\ \A j \in 1..Len(Ts(e)) : Cand(e, j) => Ts(e)[j].trig = "resource_present"
        /\ pre.res
        /\ Fired(e) = {i}
        /\ DOMAIN comps[e] = {Ts(e)[i].build.next}

\* C7: a transition whose source is AnyState is a candidate in every
\* registered state: whatever state the entity is in, if the transition's
\* trigger succeeds and no earlier candidate's does, it fires and the entity
\* ends the tick in its target.
C7_AnyStateAlwaysCandidate ==
    \A e \in Ran : \A i \in 1..Len(Ts(e)) :
        (Ts(e)[i].src = AnyState /\ PreOne(e) /\ Ok(e, i)
           /\ ~\E j \in 1..(i - 1) : Cand(e, j) /\ Ok(e, j)) =>
            /\ Fired(e) = {i}
            /\ DOMAIN comps[e] = {Ts(e)[i].build.next}
            /\ comps[e][Ts(e)[i].build.next] = Ts(e)[i].build.val

\* C7's case: an AnyState transition registered after a transition of another
\* state has fired for an entity in a state no transition names as its source.
C7_Witness ==
    \E e \in Ran : \E i \in 1..Len(Ts(e)) :
        /\ Ts(e)[i].src = AnyState
        /\ PreOne(e)
        /\ i > 1 /\ Ts(e)[1].src.k = "is" /\ ~Cand(e, 1)
        /\ \A j \in 1..Len(Ts(e)) : Ts(e)[j].src # IsState(PreCur(e))
        /\ Fired(e) = {i}
        /\ DOMAIN comps[e] = {Ts(e)[i].build.next}
        /\ Ts(e)[i].build.next # PreCur(e)

\* The number of times hook i of list `kind` was triggered for e in the last tick
Triggered(kind, e, i) == Cardinality({n \in LogIdx(kind, e) : log[n].i = i})

\* The number of queued hook events applied for e at the end of the last tick
Applied(e) == Cardinality(LogIdx("apply", e))

\* C8 (as stated): when a transition from the entity's current state and a
\* transition from AnyState both have succeeding triggers in the same tick,
\* the one taken is a transition from the current state, whatever the order of
\* registration.
C8_SpecificBeforeWildcard ==
    \A e \in Ran : \A i, j \in 1..Len(Ts(e)) :
        (PreOne(e) /\ Ts(e)[i].src = IsState(PreCur(e)) /\ Ts(e)[j].src = AnyState
           /\ Ok(e, i) /\ Ok(e, j)) =>
            /\ Fired(e) # {}
            /\ \A k \in Fired(e) : Ts(e)[k].src = IsState(PreCur(e))

\* C8 (amended): when a transition from the entity's current state and a
\* transition from AnyState both have succeeding triggers in the same tick,
\* the two are tried in one list in registration order: the earlier-registered
\* of the two is the one taken (unless a matching transition registered before
\* both succeeds), so a wildcard registered first shadows the specific one.
C8_RegistrationOrderDecides ==
    \A e \in Ran : \A i, j \in 1..Len(Ts(e)) :
        (PreOne(e) /\ Ts(e)[i].src = IsState(PreCur(e)) /\ Ts(e)[j].src = AnyState
           /\ Ok(e, i) /\ Ok(e, j)
           /\ ~\E k \in Hits(e) : k < i /\ k < j) =>
            LET first == IF i < j THEN i ELSE j
            IN /\ Fired(e) = {first}
               /\ comps[e] = After(e, first)

\* C8's case: the AnyState transition was registered first, the transition
\* from the current state second, both triggers succeeded, and the wildcard's
\* target is where the entity went.
C8_Witness ==
    \E e \in Ran : \E i, j \in 1..Len(Ts(e)) :
        /\ PreOne(e)
        /\ Ts(e)[i].src = IsState(PreCur(e)) /\ Ts(e)[j].src = AnyState
        /\ j < i
        /\ Ok(e, i) /\ Ok(e, j)
        /\ Ts(e)[i].build.next # Ts(e)[j].build.next
        /\ Fired(e) = {j}
        /\ DOMAIN comps[e] = {Ts(e)[j].build.next}

\* C9: in a transition A -> B every matching exit hook is triggered before A
\* is removed, while the entity still has A, and every matching enter hook is
\* triggered after B has been inserted, when the entity has B.
C9_HooksAroundSwap ==
    \A e \in Ran :
        /\ \A n \in LogIdx("exit", e) :
             /\ PreOne(e) /\ PreCur(e) \in log[n].at
             /\ LogIdx("remove", e) # {}
             /\ \A r \in LogIdx("remove", e) : n < r
        /\ \A n \in LogIdx("enter", e) :
             /\ LogIdx("insert", e) # {}
             /\ \A r \in LogIdx("insert", e) :
                  r < n /\ Ts(e)[log[r].i].build.next \in log[n].at

\* C9's case: a transition between two different states with an exit hook and
\* an enter hook that both matched.
C9_Witness ==
    \E e \in Ran :
        /\ PreOne(e)
        /\ LogIdx("exit", e) # {} /\ LogIdx("enter", e) # {}
        /\ \E k \in Fired(e) : Ts(e)[k].build.next # PreCur(e)
        /\ PreCur(e) \notin DOMAIN comps[e]

\* C10: in a tick that takes old -> new, an enter hook <Next, Current> is
\* triggered exactly once if Next matches new and Current matches old, an exit
\* hook <Current, Next> exactly once if Current matches old and Next matches
\* new; any other hook is not triggered, none is in a tick without a
\* transition, and each triggered hook's command is applied once. In the
\* chain A -> B -> C -> D, the enter hook <B, AnyState> has run once from the
\* first tick on and the enter hook <AnyState, AnyState> once per transition,
\* three times in all.
C10_HooksRunOncePerMatch ==
    /\ \A e \in Ran : PreOne(e) =>
         LET m == machine[e]
             old == PreCur(e)
             EnterDue(i) == \E k \in Fired(e) :
                               /\ matches(m.on_enter[i].next, Ts(e)[k].build.next)
                               /\ matches(m.on_enter[i].current, old)
             ExitDue(i) == \E k \in Fired(e) :
                              /\ matches(m.on_exit[i].current, old)
                              /\ matches(m.on_exit[i].next, Ts(e)[k].build.next)
             One(b) == IF b THEN 1 ELSE 0
         IN /\ \A i \in 1..Len(m.on_enter) :
                 /\ Triggered("enter", e, i) = One(EnterDue(i))
                 /\ hookRuns[e].enter[i] = pre.hookRuns[e].enter[i] + One(EnterDue(i))
            /\ \A i \in 1..Len(m.on_exit) :
                 /\ Triggered("exit", e, i) = One(ExitDue(i))
                 /\ hookRuns[e].exit[i] = pre.hookRuns[e].exit[i] + One(ExitDue(i))
            /\ Applied(e) = Cardinality({i \in 1..Len(m.on_enter) : EnterDue(i)})
                            + Cardinality({i \in 1..Len(m.on_exit) : ExitDue(i)})
            /\ Fired(e) = {} => (LogIdx("enter", e) = {} /\ LogIdx("exit", e) = {}
                                  /\ hookRuns[e] = pre.hookRuns[e])
    /\ \A e \in DOMAIN machine : machine[e] = ChainMachine =>
         LET n == IF ticks < 3 THEN ticks ELSE 3
             b == IF ticks >= 1 THEN 1 ELSE 0
         IN /\ hookRuns[e].enter = <<b, n>>
            /\ cmdRuns["cmd1"] = b
            /\ cmdRuns["cmd2"] = n

\* C10's case: the chain A -> B -> C -> D after its third tick: cmd1 ran once,
\* cmd2 three times, and in the tick into D the hook on B was left out.
C10_Witness ==
    \E e \in Ran :
        /\ machine[e] = ChainMachine
        /\ ticks = 3
        /\ DOMAIN comps[e] = {"D"}
        /\ Triggered("enter", e, 1) = 0
        /\ Triggered("enter", e, 2) = 1
        /\ hookRuns[e].enter = <<1, 3>>
        /\ cmdRuns["cmd1"] = 1 /\ cmdRuns["cmd2"] = 3

(* ================= hooks on sets of states (test_event_matches) ======= *)
EventStates == {"A", "B1", "B2", "C"}

\* OneOfState<(B1, B2)>
InB == OneOfState({"B1", "B2"})

\* .on_enter::<OneOfState<(B1, B2)>, NotState<OneOfState<(B1, B2)>>>(insert InB)
OnEnterInB ==
    /\ Building
    /\ builder.on_enter = <<>>
    /\ builder' = on_enter(builder, InB, NotState(InB), "insert_marker")
    /\ BuildFrame

\* .on_exit::<OneOfState<(B1, B2)>, NotState<OneOfState<(B1, B2)>>>(remove InB)
OnExitInB ==
    /\ Building
    /\ builder.on_exit = <<>>
    /\ builder' = on_exit(builder, InB, NotState(InB), "remove_marker")
    /\ BuildFrame

TransEvent == TransOf(MaxTrans, EventStates, {"always"})

\* world.spawn((state, machine)) with any of the four states
SpawnEvent == SpawnIn(EventStates)

\* The machine test_event_matches builds
EventMachine ==
    LET m1 == trans(Default, IsState("A"), "always", [ty |-> "B1", val |-> 1])
        m2 == trans(m1, IsState("B1"), "always", [ty |-> "B2", val |-> 2])
        m3 == trans(m2, IsState("B2"), "always", [ty |-> "C", val |-> 3])
        m4 == on_enter(m3, InB, NotState(InB), "insert_marker")
        m5 == on_exit(m4, InB, NotState(InB), "remove_marker")
    IN set_trans_logging(m5, TRUE)

\* test_event_matches after world.spawn((A, machine))
InitEvent ==
    /\ builder = Default
    /\ pool = {}
    /\ machine = [e \in {"e1"} |-> EventMachine]
    /\ comps = [e \in {"e1"} |-> [x \in {"A"} |-> 0]]
    /\ res = FALSE
    /\ hookRuns = [e \in {"e1"} |-> [exit |-> <<0>>, enter |-> <<0>>]]
    /\ cmdRuns = [c \in Commands |-> 0]
    /\ markers = {}
    /\ ticks = 0
    /\ spawned = [e \in {"e1"} |-> "A"]
    /\ pre = NoPre
    /\ panicked = FALSE
    /\ log = <<>>
    /\ NoTrigger

NextEvent == TransEvent \/ OnEnterInB \/ OnExitInB \/ SpawnEvent \/ Tick

SpecEvent == (Init \/ InitEvent) /\ [][NextEvent]_vars

\* The machine has the two hooks of test_event_matches
HasInBHooks(m) ==
    /\ m.on_enter = <<[next |-> InB, current |-> NotState(InB), ev |-> "insert_marker"]>>
    /\ m.on_exit = <<[current |-> InB, next |-> NotState(InB), ev |-> "remove_marker"]>>

\* The entity is in B1 or B2
IsInB(ce) == DOMAIN ce \cap {"B1", "B2"} # {}

\* A tick that goes from one of B1, B2 to one of B1, B2 triggers neither hook
\* and applies no command
NoToggleWithin(e) ==
    (IsInB(pre.comps[e]) /\ IsInB(comps[e])) =>
        /\ hookRuns[e] = pre.hookRuns[e]
        /\ LogIdx("enter", e) = {} /\ LogIdx("exit", e) = {}
        /\ LogIdx("apply", e) = {}

\* C11 (as stated): with an enter hook <OneOf(B1,B2), Not(OneOf(B1,B2))> that
\* inserts the marker and an exit hook <OneOf(B1,B2), Not(OneOf(B1,B2))> that
\* removes it, the entity carries the marker after every tick exactly when it
\* is in B1 or B2, and a tick that goes from one of B1, B2 to one of B1, B2
\* triggers neither hook and applies no command.
C11_MarkerTracksSet ==
    \A e \in Ran : HasInBHooks(machine[e]) =>
        /\ e \in markers <=> IsInB(comps[e])
        /\ NoToggleWithin(e)

\* C11 (amended): the same for an entity that was spawned in a state other
\* than B1 and B2: the hooks run on transitions only, so an entity spawned in
\* B1 or B2 has not entered the set and carries no marker.
C11_MarkerTracksSetFromOutside ==
    \A e \in Ran : (HasInBHooks(machine[e]) /\ spawned[e] \notin {"B1", "B2"}) =>
        /\ e \in markers <=> IsInB(comps[e])
        /\ NoToggleWithin(e)

\* C11's case: the machine of test_event_matches has gone from B1 to B2 with
\* the marker set on entering B1 and left alone since.
C11_Witness ==
    \E e \in Ran :
        /\ machine[e] = EventMachine
        /\ spawned[e] = "A"
        /\ DOMAIN pre.comps[e] = {"B1"} /\ DOMAIN comps[e] = {"B2"}
        /\ Fired(e) # {}
        /\ e \in markers
        /\ hookRuns[e] = [exit |-> <<0>>, enter |-> <<1>>]

(* ================== transitions with a builder system ================= *)
\* .trans_builder::<S, _, _, _, _>(trigger, builder): the builder is a system
\* whose output is the next state
TransBuilderOf(max, S, trigs) ==
    /\ Building
    /\ Len(builder.transitions) < max
    /\ \E src \in FiltersOf(S), trigger \in trigs, target \in S :
         builder' = trans_builder(builder, src, trigger,
                                  [next |-> target,
                                   val |-> Len(builder.transitions) + 1])
    /\ BuildFrame

TransBuilder == TransBuilderOf(MaxTrans, HookStates, Triggers)

NextBuilder == TransBuilder \/ SpawnHook \/ SetResource \/ Tick

SpecBuilder == Init /\ [][NextBuilder]_vars

\* The transitions whose builder system ran for e in the last tick
Built(e) == {log[n].i : n \in LogIdx("build", e)}

\* The transitions whose trigger was checked for e in the last tick
Tried(e) == {log[n].i : n \in LogIdx("check", e)}

SpawnLoose ==
    /\ Building
    /\ \E e \in pool, S \in SUBSET HookStates :
         /\ pool' = pool \ {e}
         /\ machine' = With(machine, e, builder)
         /\ comps' = With(comps, e, [x \in S |-> 0])
         /\ spawned' = With(spawned, e, IF Cardinality(S) = 1
                                        THEN CHOOSE s \in S : TRUE ELSE "")
         /\ hookRuns' = With(hookRuns, e,
                             [exit |-> [i \in 1..Len(builder.on_exit) |-> 0],
                              enter |-> [i \in 1..Len(builder.on_enter) |-> 0]])
    /\ builder' = Default
    /\ UNCHANGED <<res, cmdRuns, markers, ticks, pre, panicked, log,
                   trig, dist, out, axis>>

\* A fresh app in which two entities will be spawned
InitTwo ==
    /\ builder = Default
    /\ pool = {"e1", "e2"}
    /\ machine = <<>>
    /\ comps = <<>>
    /\ res = FALSE
    /\ hookRuns = <<>>
    /\ cmdRuns = [c \in Commands |-> 0]
    /\ markers = {}
    /\ ticks = 0
    /\ spawned = <<>>
    /\ pre = NoPre
    /\ panicked = FALSE
    /\ log = <<>>
    /\ NoTrigger

NextLoose == TransAlways \/ SpawnLoose \/ Tick

SpecLoose == InitTwo /\ [][NextLoose]_vars

\* Positions of the last tick's log where an error was reported for e
Errors(e) == LogIdx("error_no_state", e) \cup LogIdx("error_multiple_states", e)

\* What the last tick did for e, other than taking its machine, initializing
\* it, reporting an error and putting the machine back
Acted(e) ==
    {n \in 1..Len(log) : log[n].e = e}
      \ (Errors(e) \cup LogIdx("init", e) \cup LogIdx("checkout", e) \cup LogIdx("commit", e))

\* C13 (as stated): an entity with zero or several registered states attached
\* gets an error and, in that tick, no trigger check, no swap, no hook, and
\* its components and its machine's dirty flag are as they were before the
\* tick.
C13_BadStateLeftAlone ==
    \A e \in Ran : ~PreOne(e) =>
        /\ Cardinality(Errors(e)) = 1
        /\ Acted(e) = {}
        /\ comps[e] = pre.comps[e]
        /\ hookRuns[e] = pre.hookRuns[e]
        /\ machine[e].init_transitions = pre.machine[e].init_transitions

\* C13 (amended): an entity with zero or several registered states attached
\* gets an error and, in that tick, no trigger check, no swap, no hook; its
\* components are as they were and its machine is not marked dirty: the
\* tick's init phase has run before and cleared the flag if it was set
\* (re-initializing every transition), and the flag stays cleared.
C13_BadStateNotDirtied ==
    \A e \in Ran : ~PreOne(e) =>
        /\ Cardinality(Errors(e)) = 1
        /\ (attached(machine[e], pre.comps[e]) = {})
             <=> (LogIdx("error_no_state", e) # {})
        /\ Acted(e) = {}
        /\ comps[e] = pre.comps[e]
        /\ hookRuns[e] = pre.hookRuns[e]
        /\ ~machine[e].init_transitions
        /\ machine[e] = [pre.machine[e] EXCEPT !.init_transitions = FALSE]
        /\ Cardinality(LogIdx("init", e))
             = IF pre.machine[e].init_transitions THEN Len(Ts(e)) ELSE 0

\* C13's case: the entity carries two registered states, its machine has a
\* transition on `always` out of one of them, and the tick has only reported
\* the error.
C13_Witness ==
    \E e \in Ran :
        /\ Cardinality(attached(machine[e], pre.comps[e])) = 2
        /\ \E i \in 1..Len(Ts(e)) :
             /\ Ts(e)[i].trig = "always"
             /\ \E s \in DOMAIN pre.comps[e] : matches(Ts(e)[i].src, s)
             /\ Ts(e)[i].build.next \in DOMAIN pre.comps[e]
        /\ LogIdx("error_multiple_states", e) # {}
        /\ ~pre.machine[e].init_transitions
        /\ comps[e] = pre.comps[e]

\* The last tick's world with no entity but e
Alone(e) ==
    [machine |-> [x \in {e} |-> pre.machine[e]],
     comps |-> [x \in {e} |-> pre.comps[e]],
     res |-> pre.res,
     hookRuns |-> [x \in {e} |-> pre.hookRuns[e]],
     cmdRuns |-> pre.cmdRuns, markers |-> {}, panicked |-> FALSE,
     queue |-> <<>>, log |-> <<>>, store |-> <<>>, dist |-> dist]

\* What the last tick logged for e
LogOf(e) == SelectSeq(log, LAMBDA ev : ev.e = e)

\* C14: an entity in no state or in several does not stop the tick: every
\* other entity is evaluated in the same tick and ends it as it would have
\* with the violating entity absent, taking the first candidate whose trigger
\* succeeds.
C14_OthersStillRun ==
    \A e \in Ran : \A f \in Ran :
        (f # e /\ PreOne(e) /\ ~PreOne(f)) =>
            LET alone == transition(Alone(e), <<e>>)
            IN /\ comps[e] = alone.comps[e]
               /\ machine[e] = alone.machine[e]
               /\ LogOf(e) = alone.log
               /\ Hits(e) # {} => Fired(e) = {Least(Hits(e))}
               /\ Errors(f) # {}

\* C14's case: the violating entity was run first and reported, and the other
\* entity then took its transition to another state.
C14_Witness ==
    \E e \in Ran : \E f \in Ran :
        /\ f # e /\ PreOne(e) /\ ~PreOne(f)
        /\ Fired(e) # {}
        /\ DOMAIN comps[e] # DOMAIN pre.comps[e]
        /\ \E n \in Errors(f) : \A k \in LogIdx("insert", e) : n < k

(* ================= ticks in which no trigger succeeds ================= *)
\* StateMachine::default().command_on_enter::<AnyState, AnyState>(cmd1)
\*                        .command_on_exit::<AnyState, AnyState>(cmd2)
HookedMachine ==
    on_exit(on_enter(Default, AnyState, AnyState, "cmd1"),
            AnyState, AnyState, "cmd2")

\* A fresh app; the machine under construction has a hook of each kind that
\* matches every transition
InitHooked ==
    /\ builder = HookedMachine
    /\ pool = {"e1"}
    /\ machine = <<>>
    /\ comps = <<>>
    /\ res = FALSE
    /\ hookRuns = <<>>
    /\ cmdRuns = [c \in Commands |-> 0]
    /\ markers = {}
    /\ ticks = 0
    /\ spawned = <<>>
    /\ pre = NoPre
    /\ panicked = FALSE
    /\ log = <<>>
    /\ NoTrigger

TransHooked == TransOf(MaxTrans, HookStates, Triggers)

NextIdle == TransHooked \/ SpawnHook \/ SetResource \/ Tick

SpecIdle == InitHooked /\ [][NextIdle]_vars

\* C15 (as stated): a tick in which no trigger of the matching transitions
\* succeeds leaves the entity's state and its data, what the hooks would
\* modify, the machine's transition table and its dirty flag as they were.
C15_IdleTickChangesNothing ==
    \A e \in Ran : (PreOne(e) /\ Hits(e) = {}) =>
        /\ comps[e] = pre.comps[e]
        /\ cmdRuns = pre.cmdRuns /\ hookRuns[e] = pre.hookRuns[e]
        /\ markers = {}
        /\ machine[e].transitions = pre.machine[e].transitions
        /\ machine[e].init_transitions = pre.machine[e].init_transitions

\* C15 (amended): a tick in which no trigger of the matching transitions
\* succeeds leaves the entity's state and its data, what the hooks would
\* modify and the machine's transition table as they were, and does not mark
\* the machine dirty; a dirty flag that was set when the tick began has been
\* cleared by the tick's init phase.
C15_IdleTickOnlyClearsDirty ==
    \A e \in Ran : (PreOne(e) /\ Hits(e) = {}) =>
        /\ comps[e] = pre.comps[e]
        /\ cmdRuns = pre.cmdRuns /\ hookRuns[e] = pre.hookRuns[e]
        /\ markers = {}
        /\ LogIdx("enter", e) = {} /\ LogIdx("exit", e) = {}
        /\ LogIdx("apply", e) = {}
        /\ machine[e] = [pre.machine[e] EXCEPT !.init_transitions = FALSE]

\* C15's case: the entity has moved before, so hooks have run and the machine
\* was dirty when this tick began; in this tick the trigger of the one
\* matching transition failed.
C15_Witness ==
    \E e \in Ran :
        /\ PreOne(e) /\ Hits(e) = {}
        /\ \E i \in 1..Len(Ts(e)) : Cand(e, i) /\ Ts(e)[i].trig = "resource_present"
        /\ LogIdx("check", e) # {}
        /\ pre.machine[e].init_transitions
        /\ ticks >= 2
        /\ cmdRuns["cmd1"] > 0
        /\ comps[e] = pre.comps[e]

(* ============================ Done markers ============================= *)
DoneVariants == {"Success", "Failure"}

DoneTriggers == {"done", "done_success", "done_failure"}

\* remove_done_markers: Done is taken off every entity that carries it
remove_done_markers(w) ==
    [w EXCEPT !.comps = [e \in DOMAIN @ |-> Without(@[e], "Done")]]

\* A slip in the order of the system sets: the markers are cleared before
\* the transitions run.
update_markers_first(w, order) == transition(remove_done_markers(w), order)

\* One run of the plugin's schedule: the `transition` system in
\* StateSet::Transition, then remove_done_markers in
\* StateSet::RemoveDoneMarkers, configured after it
update(w, order) == remove_done_markers(transition(w, order))

\* app.update() of an app with StateMachinePlugin
Update ==
    /\ pool = {} /\ ~panicked
    /\ ticks < MaxTicks
    /\ \E order \in Orders(DOMAIN machine) :
         LET w == update(World, order)
         IN /\ machine' = w.machine
            /\ comps' = w.comps
            /\ hookRuns' = w.hookRuns
            /\ cmdRuns' = w.cmdRuns
            /\ markers' = w.markers
            /\ panicked' = w.panicked
            /\ log' = w.log
    /\ ticks' = ticks + 1
    /\ pre' = [comps |-> comps, res |-> res, hookRuns |-> hookRuns,
               cmdRuns |-> cmdRuns, machine |-> machine]
    /\ UNCHANGED <<builder, pool, res, spawned, trig, dist, out, axis>>

\* A system of the application marks an entity's state as completed, before
\* the schedule of the plugin runs: commands.entity(entity).insert(Done::..)
InsertDone ==
    /\ pool = {} /\ ~panicked
    /\ ticks < MaxTicks
    /\ \E e \in DOMAIN machine, v \in DoneVariants :
         comps' = [comps EXCEPT ![e] = With(@, "Done", v)]
    /\ UNCHANGED <<builder, pool, machine, res, hookRuns, cmdRuns, markers,
                   ticks, spawned, pre, panicked, log,
                   trig, dist, out, axis>>

TransDone == TransOf(MaxTrans, HookStates, DoneTriggers)

NextDone == TransDone \/ SpawnHook \/ InsertDone \/ Update

SpecDone == Init /\ [][NextDone]_vars

\* C16: every run of the schedule ends with no Done marker on any entity,
\* whether or not a transition consumed it, and the markers are cleared after
\* the transition phase: each trigger check of the tick sees the marker the
\* entity carried when the tick began. So a marker is visible to one
\* transition phase at most, unless it is attached again.
C16_DoneClearedAfterTransitions ==
    [][ticks' = ticks + 1 =>
         /\ \A e \in DOMAIN comps' : "Done" \notin DOMAIN comps'[e]
         /\ \A n \in 1..Len(log') :
              log'[n].op = "check" =>
                 ("Done" \in log'[n].at <=> "Done" \in DOMAIN comps[log'[n].e])]_vars

\* C16's case: the entity carried a Done marker when the tick began, a
\* trigger was checked and failed, no transition fired, and the marker is gone.
C16_Witness ==
    \E e \in Ran :
        /\ "Done" \in DOMAIN pre.comps[e]
        /\ PreOne(e)
        /\ \E n \in LogIdx("check", e) : "Done" \in log[n].at
        /\ Fired(e) = {}
        /\ "Done" \notin DOMAIN comps[e]

\* The variant a done trigger expects
Expected(trigger) ==
    CASE trigger = "done_success" -> "Success"
      [] trigger = "done_failure" -> "Failure"
      [] OTHER -> "None"

\* C17: done(expected) succeeds for an entity iff the entity carries a Done
\* marker and expected is None or the marker's variant; it fails with no
\* marker and with a marker of the other variant. Seen at the first matching
\* transition of a machine whose triggers are all done triggers: that
\* transition is taken in a tick exactly in those cases.
C17_DoneTrigger ==
    \A e \in Ran : \A i \in 1..Len(Ts(e)) :
        (PreOne(e) /\ Cand(e, i) /\ ~\E j \in 1..(i - 1) : Cand(e, j)) =>
            LET exp == Expected(Ts(e)[i].trig)
                has == "Done" \in DOMAIN pre.comps[e]
            IN /\ \E n \in LogIdx("check", e) : log[n].i = i
               /\ i \in Fired(e) <=>
                    (has /\ (exp = "None" \/ pre.comps[e]["Done"] = exp))
               /\ ~has => Fired(e) = {}

\* C17's case: done(Some(Done::Success)) was checked for an entity carrying
\* Done::Failure and failed, and a later done(None) transition was taken.
C17_Witness ==
    \E e \in Ran : \E i, j \in 1..Len(Ts(e)) :
        /\ PreOne(e) /\ i < j
        /\ Cand(e, i) /\ Cand(e, j)
        /\ Ts(e)[i].trig = "done_success" /\ Ts(e)[j].trig = "done"
        /\ "Done" \in DOMAIN pre.comps[e] /\ pre.comps[e]["Done"] = "Failure"
        /\ Fired(e) = {j}

(* ======================= init of the transitions ====================== *)
\* The number of times transition i of e's machine was initialized in the
\* last tick
Inits(e, i) == Cardinality({n \in LogIdx("init", e) : log[n].i = i})

\* C18: a machine is dirty when it is built and after every transition added,
\* and after a tick exactly when it took a transition in that tick. A tick
\* that finds the machine dirty runs init once on every one of its
\* transitions, whatever their source, before it checks any of its triggers;
\* a tick that finds it clean (nothing fired in the tick before) runs no init.
C18_InitOncePerActivation ==
    /\ builder.init_transitions
    /\ \A e \in DOMAIN machine : ticks = 0 => machine[e].init_transitions
    /\ \A e \in Ran :
         /\ \A i \in 1..Len(Ts(e)) :
              Inits(e, i) = IF pre.machine[e].init_transitions THEN 1 ELSE 0
         /\ Cardinality(LogIdx("init", e))
              = IF pre.machine[e].init_transitions THEN Len(Ts(e)) ELSE 0
         /\ \A n \in LogIdx("init", e) : \A k \in LogIdx("check", e) : n < k
         /\ machine[e].init_transitions <=> Fired(e) # {}

\* C18's case: nothing fired in the tick before, so this tick ran no init;
\* its check then succeeded, a transition was taken and the machine is dirty
\* again.
C18_Witness ==
    \E e \in Ran :
        /\ ticks >= 2
        /\ ~pre.machine[e].init_transitions
        /\ Len(Ts(e)) >= 2
        /\ LogIdx("init", e) = {}
        /\ LogIdx("check", e) # {}
        /\ Fired(e) # {}
        /\ machine[e].init_transitions

(* ================== triggers and their combinators ==================== *)
MaxDepth == 2       \* nesting of the combinators of a trigger under check


Distances == {0, 300, 301, 500}

\* Result values: Ok(v) and Err(v)
ResOk(v) == [ok |-> TRUE, val |-> v]
ResErr(v) == [ok |-> FALSE, val |-> v]

\* either::Either
Left(v) == [tag |-> "Left", val |-> v]
Right(v) == [tag |-> "Right", val |-> v]

\* <bool as TriggerOut>::into_result
into_result_bool(b) == IF b THEN ResOk(Unit) ELSE ResErr(Unit)

\* The trigger types
SystemTrigger(name) == [k |-> "sys", name |-> name]
NotTrigger(t) == [k |-> "not", t |-> t]
AndTrigger(t, u) == [k |-> "and", t |-> t, u |-> u]
IgnoreAndTrigger(t, u) == [k |-> "ignore_and", t |-> t, u |-> u]
OrTrigger(t, u) == [k |-> "or", t |-> t, u |-> u]

\* SystemTrigger::check followed by into_result: the bool systems `always`
\* and `resource_present`, and `near`, whose output is the Result
\* Ok(distance) within range and Err(distance) out of it
system_check(name, e, w) ==
    IF name = "near"
    THEN IF w.dist <= NearRange THEN ResOk(w.dist) ELSE ResErr(w.dist)
    ELSE into_result_bool(check_trigger(name, e, w))

\* A slip in not: the outcome of the inner trigger is passed on as it is.
not_check_same(r) == r

\* NotTrigger::check, given the outcome r of its trigger's check
not_check(r) == [ok |-> ~r.ok, val |-> r.val, calls |-> r.calls]

\* A slip in and: both triggers are checked before either outcome is looked at.
and_check_eager(a, b) ==
    IF ~a.ok THEN [ok |-> FALSE, val |-> Left(a.val), calls |-> a.calls \o b.calls]
    ELSE IF ~b.ok
    THEN [ok |-> FALSE, val |-> Right(b.val), calls |-> a.calls \o b.calls]
    ELSE [ok |-> TRUE, val |-> <<a.val, b.val>>, calls |-> a.calls \o b.calls]

\* AndTrigger::check, given the outcome a of the first trigger's check and
\* the outcome b the second trigger's check has if it is made
and_check(a, b) ==
    IF ~a.ok THEN [ok |-> FALSE, val |-> Left(a.val), calls |-> a.calls]
    ELSE IF ~b.ok
    THEN [ok |-> FALSE, val |-> Right(b.val), calls |-> a.calls \o b.calls]
    ELSE [ok |-> TRUE, val |-> <<a.val, b.val>>, calls |-> a.calls \o b.calls]

\* IgnoreAndTrigger::check
ignore_and_check(a, b) ==
    IF ~a.ok THEN [ok |-> FALSE, val |-> Left(a.val), calls |-> a.calls]
    ELSE IF ~b.ok
    THEN [ok |-> FALSE, val |-> Right(b.val), calls |-> a.calls \o b.calls]
    ELSE [ok |-> TRUE, val |-> b.val, calls |-> a.calls \o b.calls]

\* A slip in or: the second trigger is checked even when the first succeeds.
or_check_eager(a, b) ==
    IF a.ok THEN [ok |-> TRUE, val |-> Left(a.val), calls |-> a.calls \o b.calls]
    ELSE IF b.ok
    THEN [ok |-> TRUE, val |-> Right(b.val), calls |-> a.calls \o b.calls]
    ELSE [ok |-> FALSE, val |-> <<a.val, b.val>>, calls |-> a.calls \o b.calls]

\* OrTrigger::check
or_check(a, b) ==
    IF a.ok THEN [ok |-> TRUE, val |-> Left(a.val), calls |-> a.calls]
    ELSE IF b.ok
    THEN [ok |-> TRUE, val |-> Right(b.val), calls |-> a.calls \o b.calls]
    ELSE [ok |-> FALSE, val |-> <<a.val, b.val>>, calls |-> a.calls \o b.calls]

\* EntityTrigger::check of a trigger, as a Result, with the systems run for
\* it in order (`calls`)
RECURSIVE trigger_check(_, _, _)
trigger_check(t, e, w) ==
    CASE t.k = "sys" ->
           LET r == system_check(t.name, e, w)
           IN [ok |-> r.ok, val |-> r.val, calls |-> <<t.name>>]
      [] t.k = "not" -> not_check(trigger_check(t.t, e, w))
      [] t.k = "and" ->
           and_check(trigger_check(t.t, e, w), trigger_check(t.u, e, w))
      [] t.k = "ignore_and" ->
           ignore_and_check(trigger_check(t.t, e, w), trigger_check(t.u, e, w))
      [] OTHER -> or_check(trigger_check(t.t, e, w), trigger_check(t.u, e, w))

Leaves == {SystemTrigger(n) : n \in {"always", "resource_present", "near"}}

\* The triggers built from the leaves with at most d nested combinators, one
\* side of a binary combinator being a leaf
RECURSIVE TriggersOfDepth(_)
TriggersOfDepth(d) ==
    IF d = 0 THEN Leaves
    ELSE LET P == TriggersOfDepth(d - 1)
             pairs == (P \X Leaves) \cup (Leaves \X P)
         IN P \cup {NotTrigger(t) : t \in P}
              \cup {AndTrigger(p[1], p[2]) : p \in pairs}
              \cup {IgnoreAndTrigger(p[1], p[2]) : p \in pairs}
              \cup {OrTrigger(p[1], p[2]) : p \in pairs}

\* No check made yet
NoOut == [ok |-> FALSE, val |-> Unit, calls |-> <<>>]

\* The world a trigger under check reads
TrigWorld == [res |-> res, dist |-> dist]

\* A trigger, and a world for it to be checked in
InitTrigger ==
    /\ builder = Default
    /\ pool = {}
    /\ machine = <<>>
    /\ comps = <<>>
    /\ res \in BOOLEAN
    /\ hookRuns = <<>>
    /\ cmdRuns = [c \in Commands |-> 0]
    /\ markers = {}
    /\ ticks = 0
    /\ spawned = <<>>
    /\ pre = NoPre
    /\ panicked = FALSE
    /\ log = <<>>
    /\ trig \in TriggersOfDepth(MaxDepth)
    /\ dist \in Distances
    /\ out = NoOut
    /\ axis = <<>>

\* `trig` has been checked
Checked == out.calls # <<>>

\* trig.check(entity, world).into_result()
CheckTrigger ==
    /\ ~Checked
    /\ out' = trigger_check(trig, "e1", TrigWorld)
    /\ UNCHANGED <<builder, pool, machine, comps, res, hookRuns, cmdRuns, markers,
                   ticks, spawned, pre, panicked, log, trig, dist, axis>>

NextTrigger == CheckTrigger

SpecTrigger == InitTrigger /\ [][NextTrigger]_vars

\* The outcome of checking trigger t in the world `trig` was checked in
OutOf(t) == trigger_check(t, "e1", TrigWorld)

\* C19: not(T) succeeds exactly when T fails and fails exactly when T
\* succeeds, carries T's payload over to the other side, and checks T once:
\* the systems run for not(T) are those run for one check of T. So
\* not(near) is Ok(distance) out of range and Err(distance) within it,
\* not(always) is Err(()), and not(resource_present) is Ok(()) exactly when
\* the resource is absent.
C19_NotSwapsOutcome ==
    (Checked /\ trig.k = "not") =>
        /\ out.ok = ~OutOf(trig.t).ok
        /\ out.val = OutOf(trig.t).val
        /\ out.calls = OutOf(trig.t).calls
        /\ trig.t.k = "sys" => out.calls = <<trig.t.name>>
        /\ trig.t = SystemTrigger("near") =>
             (out.ok <=> dist > NearRange) /\ out.val = dist
        /\ trig.t = SystemTrigger("always") => ~out.ok /\ out.val = Unit
        /\ trig.t = SystemTrigger("resource_present") =>
             (out.ok <=> ~res) /\ out.val = Unit

\* C19's case: chase.rs's near_player.not(), checked out of range: it
\* succeeds and carries the distance near_player failed with.
C19_Witness ==
    /\ Checked
    /\ trig = NotTrigger(SystemTrigger("near"))
    /\ dist > NearRange
    /\ out = [ok |-> TRUE, val |-> dist, calls |-> <<"near">>]

\* C20: and(T, U) succeeds iff T and U both succeed, with the pair of their
\* payloads; if T fails U is not checked and the failure is Left(T's
\* payload); if T succeeds and U fails the failure is Right(U's payload).
C20_AndShortCircuits ==
    (Checked /\ trig.k = "and") =>
        LET a == OutOf(trig.t)
            b == OutOf(trig.u)
        IN /\ out.ok <=> (a.ok /\ b.ok)
           /\ out.ok => out.val = <<a.val, b.val>> /\ out.calls = a.calls \o b.calls
           /\ ~a.ok => out.val = Left(a.val) /\ out.calls = a.calls
           /\ (a.ok /\ ~b.ok) =>
                out.val = Right(b.val) /\ out.calls = a.calls \o b.calls
           /\ trig = AndTrigger(SystemTrigger("near"), SystemTrigger("resource_present")) =>
                /\ out.ok <=> (dist <= NearRange /\ res)
                /\ out.ok => out.val = <<dist, Unit>>
                /\ dist > NearRange =>
                     out.val = Left(dist) /\ out.calls = <<"near">>
                /\ (dist <= NearRange /\ ~res) =>
                     out.val = Right(Unit)
                     /\ out.calls = <<"near", "resource_present">>

\* C20's case: near.and(resource_present) out of range: the check fails with
\* the distance tagged Left and resource_present has not been run.
C20_Witness ==
    /\ Checked
    /\ trig = AndTrigger(SystemTrigger("near"), SystemTrigger("resource_present"))
    /\ dist > NearRange /\ res
    /\ out = [ok |-> FALSE, val |-> Left(dist), calls |-> <<"near">>]


\* C21: or(T, U) succeeds iff T or U succeeds, the left preferred: if T
\* succeeds the result is Left(T's payload) and U is not checked; if T
\* fails and U succeeds it is Right(U's payload); it fails only if both
\* fail, with the pair of the two failure payloads.
C21_OrPrefersLeft ==
    (Checked /\ trig.k = "or") =>
        LET a == OutOf(trig.t)
            b == OutOf(trig.u)
        IN /\ out.ok <=> (a.ok \/ b.ok)
           /\ a.ok => out.val = Left(a.val) /\ out.calls = a.calls
           /\ (~a.ok /\ b.ok) =>
                out.val = Right(b.val) /\ out.calls = a.calls \o b.calls
           /\ ~out.ok => out.val = <<a.val, b.val>> /\ out.calls = a.calls \o b.calls
           /\ trig = OrTrigger(SystemTrigger("near"), SystemTrigger("resource_present")) =>
                /\ out.ok <=> (dist <= NearRange \/ res)
                /\ dist <= NearRange =>
                     out.val = Left(dist) /\ out.calls = <<"near">>
                /\ (dist > NearRange /\ res) =>
                     out.val = Right(Unit)
                     /\ out.calls = <<"near", "resource_present">>
                /\ (dist > NearRange /\ ~res) => out.val = <<dist, Unit>>

\* C21's case: near.or(resource_present) within range with the resource
\* present: both would succeed, the result is the distance tagged Left and
\* resource_present has not been run.
C21_Witness ==
    /\ Checked
    /\ trig = OrTrigger(SystemTrigger("near"), SystemTrigger("resource_present"))
    /\ dist <= NearRange /\ res
    /\ out = [ok |-> TRUE, val |-> Left(dist), calls |-> <<"near">>]


(* ============ triggers that read the state of other entities ========== *)
PeerTriggers == {"always", "peer_in_B"}

\* .trans::<S, _>(trigger, state) with a concrete source state S
TransPeer ==
    /\ Building
    /\ Len(builder.transitions) < MaxHookTrans
    /\ \E src \in HookStates, trigger \in PeerTriggers, target \in HookStates :
         builder' = trans(builder, IsState(src), trigger,
                          [ty |-> target, val |-> Len(builder.transitions) + 1])
    /\ BuildFrame

SpawnPeer == SpawnIn(HookStates)

NextPeer == TransPeer \/ SpawnPeer \/ Tick

\* Two entities, each with a machine of its own
SpecPeer == InitTwo /\ [][NextPeer]_vars

\* C22: within one tick every entity's triggers are evaluated against the
\* world as the tick found it: a swap decided for an entity run earlier in
\* the tick is only queued, so the entities run later do not see it, and
\* each entity takes the first candidate whose trigger succeeds in the world
\* the tick began with, or none when there is none.
C22_SwapsInvisibleWithinTick ==
    \A e \in Ran : PreOne(e) =>
        Fired(e) = IF Hits(e) = {} THEN {} ELSE {Least(Hits(e))}


\* C23: check-out and put-back are a round trip: after a tick every entity
\* with a machine holds the machine it held before the tick, with the same
\* states, the same transitions in the same order, the same hooks and the
\* same logging flag (only the dirty flag may differ), so never the stub
\* left in its place during the tick and never another entity's machine.
C23_CheckoutRoundTrip ==
    \A e \in Ran :
        /\ machine[e] = [pre.machine[e] EXCEPT
                           !.init_transitions = machine[e].init_transitions]
        /\ pre.machine[e].transitions # <<>> => machine[e].transitions # Default.transitions
        /\ \A f \in Ran :
             (f # e /\ pre.machine[f].transitions # pre.machine[e].transitions)
             => machine[e].transitions # pre.machine[f].transitions

\* C23's case: two entities with different machines were run, one took its
\* transition, and each holds its own transitions after the tick.
C23_Witness ==
    \E e \in Ran : \E f \in Ran :
        /\ f # e
        /\ pre.machine[e].transitions # <<>>
        /\ pre.machine[f].transitions # <<>>
        /\ pre.machine[e].transitions # pre.machine[f].transitions
        /\ Fired(e) # {}
        /\ machine[e].transitions = pre.machine[e].transitions
        /\ machine[f].transitions = pre.machine[f].transitions


\* C24: a transition from S to S goes through the whole swap: every exit
\* hook whose filters match (S, S) is triggered once and no other, the old S
\* is removed, the builder runs, the new S is inserted with the builder's
\* value in place of the old data, every enter hook whose filters match
\* (S, S) is triggered once and no other, in this order, and the machine is
\* left dirty, so that its transitions are initialized again by the next tick.
C24_SelfTransitionFullSwap ==
    \A e \in Ran : \A k \in Fired(e) :
        (PreOne(e) /\ Ts(e)[k].build.next = PreCur(e)) =>
            LET m == machine[e]
                S == PreCur(e)
                One(b) == IF b THEN 1 ELSE 0
            IN /\ \A i \in 1..Len(m.on_exit) :
                    Triggered("exit", e, i)
                      = One(matches(m.on_exit[i].current, S) /\ matches(m.on_exit[i].next, S))
               /\ \A i \in 1..Len(m.on_enter) :
                    Triggered("enter", e, i)
                      = One(matches(m.on_enter[i].next, S) /\ matches(m.on_enter[i].current, S))
               /\ comps[e] = [x \in {S} |-> Ts(e)[k].build.val]
               /\ \E r \in LogIdx("remove", e), b \in LogIdx("build", e),
                     n \in LogIdx("insert", e) :
                    /\ r < b /\ b < n
                    /\ \A x \in LogIdx("exit", e) : x < r
                    /\ \A x \in LogIdx("enter", e) : n < x
               /\ machine[e].init_transitions
               /\ pre.machine[e].init_transitions =>
                    Cardinality(LogIdx("init", e)) = Len(Ts(e))

\* C24's case: an entity in S took S -> S in a tick that followed another
\* transition: its transitions were initialized again, an exit hook and an
\* enter hook on (S, S) were triggered, and S carries the builder's value.
C24_Witness ==
    \E e \in Ran : \E k \in Fired(e) :
        /\ PreOne(e) /\ Ts(e)[k].build.next = PreCur(e)
        /\ ticks >= 2
        /\ pre.machine[e].init_transitions
        /\ LogIdx("init", e) # {}
        /\ LogIdx("exit", e) # {} /\ LogIdx("enter", e) # {}
        /\ comps[e][PreCur(e)] = Ts(e)[k].build.val
        /\ machine[e].init_transitions


\* The registered states the entity of log entry n carried when the step was
\* taken
StatesAt(n) == log[n].at \cap machine[log[n].e].states

\* The steps of a tick that run code handed to the engine, or the engine's
\* own code around the swap, for an entity that began the tick in one state
SwapSteps ==
    {n \in 1..Len(log) :
        /\ log[n].op \in {"exit", "build", "insert", "enter", "info", "apply"}
        /\ log[n].e \in Ran /\ PreOne(log[n].e)}

\* C25 (as stated): at no step of a swap is the entity without a state: the
\* builder, the hooks and whatever else the engine runs during the swap find
\* a registered state attached.
C25_NeverStateless ==
    \A n \in SwapSteps : StatesAt(n) # {}

\* C25 (amended): the entity is without a state exactly between the removal
\* of the outgoing state and the insertion of the incoming one, which is
\* where the builder runs: the builder finds no registered state attached;
\* the exit hooks before it, and the insertion, the enter hooks, the log line
\* and the queued commands after it, find exactly one, and so does the end
\* of the tick.
C25_StatelessOnlyForBuilder ==
    /\ \A n \in SwapSteps :
         IF log[n].op = "build" THEN StatesAt(n) = {}
         ELSE Cardinality(StatesAt(n)) = 1
    /\ \A e \in Ran : PreOne(e) =>
         /\ Cardinality(attached(machine[e], comps[e])) = 1
         /\ \A b \in LogIdx("build", e) :
              /\ \E r \in LogIdx("remove", e) : r < b
              /\ \E i \in LogIdx("insert", e) : b < i

\* C25's case: S -> S was taken with an exit and an enter hook: the builder
\* ran with no state attached, the hooks with S attached.
C25_Witness ==
    \E e \in Ran : \E k \in Fired(e) :
        /\ PreOne(e) /\ Ts(e)[k].build.next = PreCur(e)
        /\ \E b \in LogIdx("build", e) : StatesAt(b) = {}
        /\ \E x \in LogIdx("exit", e) : StatesAt(x) = {PreCur(e)}
        /\ \E x \in LogIdx("enter", e) : StatesAt(x) = {PreCur(e)}
        /\ attached(machine[e], comps[e]) = {PreCur(e)}


\* The transitions whose trigger was checked for e in the last tick, in the
\* order of the checks
Checks(e) ==
    LET cs == SelectSeq(log, LAMBDA ev : ev.op = "check" /\ ev.e = e)
    IN [n \in 1..Len(cs) |-> cs[n].i]

\* The candidates up to and including the first whose trigger succeeds, all
\* the candidates when none does, in registration order
DueChecks(e) ==
    SelectSeq([i \in 1..Len(Ts(e)) |-> i],
              LAMBDA i : Cand(e, i) /\ \A j \in Hits(e) : i <= j)

\* C26: once a transition wins for an entity in a tick, no later-registered
\* transition's trigger is checked for it in that tick; every
\* earlier-registered transition whose source matches, and the winner, is
\* checked exactly once, in registration order; a transition whose source
\* does not match the current state is never checked.
C26_NoCheckAfterWinner ==
    \A e \in Ran : PreOne(e) =>
        /\ Checks(e) = DueChecks(e)
        /\ \A i \in 1..Len(Ts(e)) :
             /\ ~Cand(e, i) => ~\E n \in LogIdx("check", e) : log[n].i = i
             /\ (\E k \in Fired(e) : k < i) => ~\E n \in LogIdx("check", e) : log[n].i = i
             /\ (Cand(e, i) /\ \E k \in Fired(e) : i <= k) =>
                  Cardinality({n \in LogIdx("check", e) : log[n].i = i}) = 1

\* C26's case: two candidates whose triggers both succeed: the first won and
\* was checked once, the second was not checked.
C26_Witness ==
    \E e \in Ran :
        /\ PreOne(e) /\ Len(Ts(e)) = 2
        /\ Cand(e, 1) /\ Cand(e, 2) /\ Ok(e, 1) /\ Ok(e, 2)
        /\ Ts(e)[1].trig # Ts(e)[2].trig
        /\ Fired(e) = {1}
        /\ Checks(e) = <<1>>


(* ============== states replaced by hand between two ticks ============= *)
\* Code outside the engine takes the entity's state off and inserts another
\* registered state (or the same with new data) between two ticks; the data
\* it inserts carries the token -1.
ReplaceState ==
    /\ pool = {} /\ ~panicked
    /\ ticks < MaxTicks
    /\ \E e \in DOMAIN comps, s \in HookStates :
         /\ Cardinality(attached(machine[e], comps[e])) = 1
         /\ s \in machine[e].states
         /\ comps' = [comps EXCEPT
                        ![e] = With(Without(@, CHOOSE c \in attached(machine[e], comps[e]) : TRUE),
                                    s, -1)]
    /\ UNCHANGED <<builder, pool, machine, res, hookRuns, cmdRuns, markers,
                   ticks, spawned, pre, panicked, log, trig, dist, out, axis>>

NextReplace == TransHooked \/ SpawnHook \/ SetResource \/ ReplaceState \/ Tick

SpecReplace == InitHooked /\ [][NextReplace]_vars

\* The state the last tick found on e had been put there by hand
Replaced(e) == pre.comps[e][PreCur(e)] < 0

\* What C27 asks of the tick that follows a replacement by hand
ReplacedStateRead ==
    \A e \in Ran : (PreOne(e) /\ Replaced(e)) =>
        LET m == machine[e]
            old == PreCur(e)
            EnterDue(i) == \E k \in Fired(e) :
                              /\ matches(m.on_enter[i].next, Ts(e)[k].build.next)
                              /\ matches(m.on_enter[i].current, old)
            ExitDue(i) == \E k \in Fired(e) :
                             /\ matches(m.on_exit[i].current, old)
                             /\ matches(m.on_exit[i].next, Ts(e)[k].build.next)
            One(b) == IF b THEN 1 ELSE 0
        IN /\ Checks(e) = DueChecks(e)
           /\ \A n \in LogIdx("check", e) : log[n].s = old
           /\ IF Hits(e) = {}
              THEN Fired(e) = {} /\ comps[e] = pre.comps[e]
              ELSE Fired(e) = {Least(Hits(e))} /\ comps[e] = After(e, Least(Hits(e)))
           /\ \A i \in 1..Len(m.on_enter) :
                /\ Triggered("enter", e, i) = One(EnterDue(i))
                /\ hookRuns[e].enter[i] = pre.hookRuns[e].enter[i] + One(EnterDue(i))
           /\ \A i \in 1..Len(m.on_exit) :
                /\ Triggered("exit", e, i) = One(ExitDue(i))
                /\ hookRuns[e].exit[i] = pre.hookRuns[e].exit[i] + One(ExitDue(i))
           /\ cmdRuns["cmd1"] = pre.cmdRuns["cmd1"] + One(Fired(e) # {})
           /\ cmdRuns["cmd2"] = pre.cmdRuns["cmd2"] + One(Fired(e) # {})

\* C27: when the state of an entity is replaced by hand between two ticks,
\* leaving one registered state attached, the change itself runs no hook of
\* the machine and leaves the machine as it is, and the tick that follows
\* reads the current state from the entity: it checks exactly the
\* transitions whose source matches the newly attached state, up to the
\* first whose trigger succeeds, takes that one, and triggers hooks only for
\* the transition it takes, with the newly attached state as the old state.
C27_ReplacedStateIsRead ==
    [][/\ (pool = {} /\ ticks' = ticks) =>
            (hookRuns' = hookRuns /\ cmdRuns' = cmdRuns /\ machine' = machine)
       /\ ticks' = ticks + 1 => ReplacedStateRead']_vars

\* C27's case: spawned in A, put in B by hand before the first tick; the
\* machine has A -> B and then B -> A: the tick checked only B -> A, took it,
\* and the hooks ran once, for B -> A.
C27_Witness ==
    \E e \in Ran :
        /\ ticks = 1 /\ spawned[e] = "A"
        /\ PreOne(e) /\ PreCur(e) = "B" /\ Replaced(e)
        /\ Len(Ts(e)) = 2
        /\ Ts(e)[1].src = IsState("A") /\ Ts(e)[1].trig = "always"
        /\ Ts(e)[2].src = IsState("B") /\ Ts(e)[2].build.next = "A"
        /\ Checks(e) = <<2>> /\ Fired(e) = {2}
        /\ hookRuns[e] = [exit |-> <<1>>, enter |-> <<1>>]
        /\ cmdRuns["cmd1"] = 1 /\ cmdRuns["cmd2"] = 1


(* ======================== transition logging ========================== *)
\* .set_trans_logging(b)
SetTransLogging ==
    /\ Building
    /\ \E b \in BOOLEAN :
         /\ builder.log_transitions # b
         /\ builder' = set_trans_logging(builder, b)
    /\ BuildFrame

TransLogged == TransOf(MaxTrans, HookStates, Triggers)

NextLogging == TransLogged \/ SetTransLogging \/ SpawnHook \/ SetResource \/ Tick

SpecLogging == Init /\ [][NextLogging]_vars

\* The lines the last tick logged at info level for e
InfoLines(e) ==
    LET ls == SelectSeq(log, LAMBDA ev : ev.op = "info" /\ ev.e = e)
    IN [n \in 1..Len(ls) |-> ls[n].s]

\* C28 (as stated): with log_transitions set, a tick that takes a transition
\* logs exactly one line for it, naming the entity, the trigger, the old
\* state and the new state; nothing is logged with the flag off or when no
\* transition is taken.
C28_LogLineNamesTrigger ==
    \A e \in Ran : PreOne(e) =>
        IF machine[e].log_transitions /\ Fired(e) # {}
        THEN /\ Len(InfoLines(e)) = 1
             /\ \A k \in Fired(e) :
                  /\ InfoLines(e)[1].entity = e
                  /\ InfoLines(e)[1].from = PreCur(e)
                  /\ InfoLines(e)[1].to = Ts(e)[k].build.next
                  /\ "trigger" \in DOMAIN InfoLines(e)[1]
        ELSE InfoLines(e) = <<>>

\* C28 (amended): with log_transitions set, a tick that takes a transition
\* logs exactly one line for it, naming the entity, the old state and the
\* new state, and nothing else: the trigger is not named; nothing is logged
\* with the flag off or when no transition is taken.
C28_LogLineNamesStates ==
    \A e \in Ran : PreOne(e) =>
        IF machine[e].log_transitions /\ Fired(e) # {}
        THEN \A k \in Fired(e) :
               InfoLines(e) = <<[entity |-> e, from |-> PreCur(e),
                                 to |-> Ts(e)[k].build.next]>>
        ELSE InfoLines(e) = <<>>

\* C28's case: a machine with logging on took resource_present from A to B,
\* after a tick in which the trigger failed and nothing was logged: one line,
\* "e transitioned from A to B".
C28_Witness ==
    \E e \in Ran : \E k \in Fired(e) :
        /\ ticks >= 2
        /\ machine[e].log_transitions
        /\ PreOne(e) /\ PreCur(e) = "A"
        /\ Ts(e)[k].trig = "resource_present" /\ Ts(e)[k].build.next = "B"
        /\ InfoLines(e) = <<[entity |-> e, from |-> "A", to |-> "B"]>>


(* ================= the known states of a built machine ================ *)
\* .command_on_enter::<B, AnyState>(cmd1)
OnEnterB ==
    /\ Building
    /\ NHooks(builder) < MaxHooks
    /\ builder' = on_enter(builder, IsState("B"), AnyState, "cmd1")
    /\ BuildFrame

\* .command_on_exit::<AnyState, B>(cmd2)
OnExitB ==
    /\ Building
    /\ NHooks(builder) < MaxHooks
    /\ builder' = on_exit(builder, AnyState, IsState("B"), "cmd2")
    /\ BuildFrame

TransBuilderAlways == TransBuilderOf(MaxHookTrans, HookStates, {"always"})

\* Machines built with every kind of builder call, in any order
NextBuild ==
    \/ WithState \/ TransAlways \/ TransBuilderAlways \/ OnEnterB \/ OnExitB
    \/ SpawnHook \/ Tick

SpecBuild == Init /\ [][NextBuild]_vars

\* C29: whatever builder calls a machine is made of, the TypeId of the source
\* and of the target of each of its transitions is a key of its `states`
\* map; so the look-ups `self.states[&current]` and
\* `self.states[&next_state]` of a tick that takes a transition find their
\* keys and the tick does not panic.
C29_TransitionStatesKnown ==
    /\ \A m \in {builder} \cup {machine[e] : e \in DOMAIN machine} :
         \A i \in 1..Len(m.transitions) :
             /\ TypeIdOf(m.transitions[i].src) \in m.states
             /\ m.transitions[i].build.next \in m.states
    /\ ~panicked
    /\ \A e \in Ran : \A k \in Fired(e) :
         /\ PreOne(e)
         /\ PreCur(e) \in machine[e].states
         /\ Ts(e)[k].build.next \in machine[e].states

\* C29's case: a machine made of with_state::<A>(), one transition from
\* AnyState to B and a hook: A, B and AnyState are the known states, and the
\* tick took the transition from A.
C29_Witness ==
    \E e \in Ran : \E k \in Fired(e) :
        /\ machine[e].states = {"A", "AnyState", "B"}
        /\ Len(Ts(e)) = 1
        /\ Ts(e)[k].src = AnyState /\ Ts(e)[k].build.next = "B"
        /\ NHooks(machine[e]) > 0
        /\ DOMAIN comps[e] = {"B"}
        /\ ~panicked


(* =========================== input triggers =========================== *)
InputTriggers == {"pressed", "just_pressed", "released"}

\* The ActionState of an action after the input manager's update of a frame
\* in which the action's input is held or not: a press begins as
\* JustPressed and goes on as Pressed, a release begins as JustReleased and
\* goes on as Released.
button_update(prev, held) ==
    IF held
    THEN IF prev \in {"JustPressed", "Pressed"} THEN "Pressed" ELSE "JustPressed"
    ELSE IF prev \in {"JustPressed", "Pressed"} THEN "JustReleased" ELSE "Released"

TransInput == TransOf(MaxTrans, HookStates, InputTriggers)

\* world.spawn((machine, state, InputManagerBundle)): the entity also carries
\* an ActionState, with the action released
SpawnInput ==
    /\ Building
    /\ \E e \in pool, s \in HookStates :
         /\ pool' = pool \ {e}
         /\ machine' = With(machine, e, builder)
         /\ comps' = With(comps, e, With([x \in {s} |-> 0], "ActionState", "Released"))
         /\ spawned' = With(spawned, e, s)
         /\ hookRuns' = With(hookRuns, e,
                             [exit |-> [i \in 1..Len(builder.on_exit) |-> 0],
                              enter |-> [i \in 1..Len(builder.on_enter) |-> 0]])
    /\ builder' = Default
    /\ UNCHANGED <<res, cmdRuns, markers, ticks, pre, panicked, log,
                   trig, dist, out, axis>>

\* app.update() with the input manager: the ActionState of every entity is
\* updated from the input of the frame, then the `transition` system runs
TickInput ==
    /\ pool = {} /\ ~panicked
    /\ ticks < MaxTicks
    /\ \E held \in BOOLEAN, order \in Orders(DOMAIN machine) :
         LET found == [World EXCEPT
                         !.comps = [e \in DOMAIN comps |->
                                      IF "ActionState" \in DOMAIN comps[e]
                                      THEN [comps[e] EXCEPT
                                              !["ActionState"] = button_update(@, held)]
                                      ELSE comps[e]]]
             w == transition(found, order)
         IN /\ machine' = w.machine
            /\ comps' = w.comps
            /\ hookRuns' = w.hookRuns
            /\ cmdRuns' = w.cmdRuns
            /\ markers' = w.markers
            /\ panicked' = w.panicked
            /\ log' = w.log
            /\ pre' = [comps |-> found.comps, res |-> res, hookRuns |-> hookRuns,
                       cmdRuns |-> cmdRuns, machine |-> machine]
    /\ ticks' = ticks + 1
    /\ UNCHANGED <<builder, pool, res, spawned, trig, dist, out, axis>>

NextInput == TransInput \/ SpawnInput \/ TickInput

SpecInput == Init /\ [][NextInput]_vars

\* C30: PressedTrigger(a) succeeds on every tick in which a is pressed, the
\* ticks after the one in which the press began included, and fails on every
\* tick in which a is not pressed: a transition on it that is a candidate
\* with no earlier candidate succeeding is taken exactly in the ticks that
\* find a pressed.
C30_PressedWhileHeld ==
    \A e \in Ran : \A i \in 1..Len(Ts(e)) :
        (/\ PreOne(e) /\ Ts(e)[i].trig = "pressed" /\ Cand(e, i)
         /\ \A j \in 1..(i - 1) :
              ~(Cand(e, j) /\ pre.comps[e]["ActionState"] \in {"JustPressed", "Pressed"}))
        => (i \in Fired(e)
              <=> pre.comps[e]["ActionState"] \in {"JustPressed", "Pressed"})


\* C31: ReleasedTrigger(a) succeeds on every tick in which a is released
\* (not pressed) and fails on every tick in which a is pressed: a transition
\* on it that is a candidate, the first of the candidates, is taken exactly
\* in the ticks that find a released.
C31_ReleasedWhileReleased ==
    \A e \in Ran : \A i \in 1..Len(Ts(e)) :
        (/\ PreOne(e) /\ Ts(e)[i].trig = "released" /\ Cand(e, i)
         /\ \A j \in 1..(i - 1) : ~Cand(e, j))
        => (i \in Fired(e)
              <=> pre.comps[e]["ActionState"] \in {"JustReleased", "Released"})


(* ------------- AxisPairTrigger (src/src/trigger/input.rs) ------------- *)
MaxLength == 2      \* the longest axis pair drawn

\* Axis pair lengths; f32::INFINITY lies above every one of them
Lengths == 0..MaxLength
Infinity == MaxLength + 1

\* Rotations, measured clockwise from midnight, in quarter turns
Rotations == 0..3

\* Rotation::NORTH
NORTH == 0

\* The fields of an AxisPairTrigger
AxisPairTrigger(min_len, max_len, min_rot, max_rot) ==
    [min_length |-> min_len, max_length |-> max_len,
     min_rotation |-> min_rot, max_rotation |-> max_rot]

\* AxisPairTrigger::unbounded
unbounded == AxisPairTrigger(0, Infinity, NORTH, NORTH)

\* AxisPairTrigger::min_length
min_length(min_len) == AxisPairTrigger(min_len, Infinity, NORTH, NORTH)

\* AxisPairTrigger::max_length
max_length(max_len) == AxisPairTrigger(0, max_len, NORTH, NORTH)

\* AxisPairTrigger::length_bounds
length_bounds(min_len, max_len) == AxisPairTrigger(min_len, max_len, NORTH, NORTH)

\* AxisPairTrigger::rotation_bounds
rotation_bounds(min_rot, max_rot) == AxisPairTrigger(0, Infinity, min_rot, max_rot)

\* The triggers the constructors build
AxisPairTriggers ==
    {unbounded}
      \cup {min_length(l) : l \in Lengths}
      \cup {max_length(l) : l \in Lengths}
      \cup {length_bounds(l[1], l[2]) : l \in Lengths \X Lengths}
      \cup {rotation_bounds(r[1], r[2]) : r \in Rotations \X Rotations}

\* What ActionState::axis_pair returns: an Option, here a set of at most one
\* DualAxisData; a neutral pair (length 0) has no rotation
AxisPairs ==
    {{}, {[length |-> 0, rotation |-> {}]}}
      \cup {{[length |-> l, rotation |-> {r}]} : <<l, r>> \in (Lengths \ {0}) \X Rotations}

\* <AxisPairTrigger as Trigger>::trigger, given what axis_pair returned: Ok
\* carries the DualAxisData itself, Err what axis_pair returned (an Option)
axis_pair_trigger(t, axis_pair) ==
    LET within(p) ==
            /\ p.length >= t.min_length
            /\ p.length <= t.max_length
            /\ \A rotation \in p.rotation :
                 IF t.min_rotation <= t.max_rotation
                 THEN rotation >= t.min_rotation /\ rotation <= t.max_rotation
                 ELSE rotation >= t.min_rotation \/ rotation <= t.max_rotation
    IN IF \E p \in axis_pair : within(p)
       THEN ResOk(CHOOSE p \in axis_pair : within(p))
       ELSE ResErr(axis_pair)

\* An AxisPairTrigger, and an axis pair for it to read
InitAxis ==
    /\ builder = Default
    /\ pool = {}
    /\ machine = <<>>
    /\ comps = <<>>
    /\ res = FALSE
    /\ hookRuns = <<>>
    /\ cmdRuns = [c \in Commands |-> 0]
    /\ markers = {}
    /\ ticks = 0
    /\ spawned = <<>>
    /\ pre = NoPre
    /\ panicked = FALSE
    /\ log = <<>>
    /\ trig \in AxisPairTriggers
    /\ dist = 0
    /\ out = NoOut
    /\ axis \in AxisPairs

\* trig.trigger(entity, actors), the entity having an ActionState
CheckAxisPair ==
    /\ ~Checked
    /\ out' = [ok |-> axis_pair_trigger(trig, axis).ok,
               val |-> axis_pair_trigger(trig, axis).val,
               calls |-> <<"AxisPairTrigger">>]
    /\ UNCHANGED <<builder, pool, machine, comps, res, hookRuns, cmdRuns, markers,
                   ticks, spawned, pre, panicked, log, trig, dist, axis>>

NextAxis == CheckAxisPair

SpecAxis == InitAxis /\ [][NextAxis]_vars

\* C32: an AxisPairTrigger whose min_rotation equals its max_rotation (as
\* unbounded, min_length, max_length and length_bounds build it) has no
\* rotation bound: it succeeds for every present axis pair whose length is
\* within [min_length, max_length], whatever the rotation; the unbounded
\* trigger succeeds for every present axis pair.
C32_EqualRotationsUnbounded ==
    (Checked /\ trig.min_rotation = trig.max_rotation) =>
        \A p \in axis :
            (p.length >= trig.min_length /\ p.length <= trig.max_length) => out.ok


(* ------------- input triggers without an ActionState ------------------ *)
\* trans::<S, _>(trigger, target) and trans::<AnyState, _>(trigger, target)
TransMissing ==
    /\ Building
    /\ Len(builder.transitions) < MaxTrans
    /\ \E src \in {IsState(s) : s \in HookStates} \cup {AnyState},
          trigger \in {"always", "resource_present", "just_pressed"},
          target \in HookStates :
         builder' = trans(builder, src, trigger,
                          [ty |-> target, val |-> Len(builder.transitions) + 1])
    /\ BuildFrame

\* world.spawn((machine, state)) with or without an InputManagerBundle
SpawnMissing ==
    /\ Building
    /\ \E e \in pool, s \in HookStates, input \in BOOLEAN :
         /\ pool' = pool \ {e}
         /\ machine' = With(machine, e, builder)
         /\ comps' = With(comps, e,
                          IF input
                          THEN With([x \in {s} |-> 0], "ActionState", "Released")
                          ELSE [x \in {s} |-> 0])
         /\ spawned' = With(spawned, e, s)
         /\ hookRuns' = With(hookRuns, e,
                             [exit |-> [i \in 1..Len(builder.on_exit) |-> 0],
                              enter |-> [i \in 1..Len(builder.on_enter) |-> 0]])
    /\ builder' = Default
    /\ UNCHANGED <<res, cmdRuns, markers, ticks, pre, panicked, log,
                   trig, dist, out, axis>>

NextMissing == TransMissing \/ SpawnMissing \/ TickInput

SpecMissing == InitHooked /\ [][NextMissing]_vars

\* The checks of the last tick made by an input trigger for an entity that
\* carried no ActionState
MissingChecks ==
    {n \in 1..Len(log) :
        /\ log[n].op = "check"
        /\ log[n].e \in Ran
        /\ Ts(log[n].e)[log[n].i].trig \in InputTriggers
        /\ "ActionState" \notin log[n].at}

\* The check at position n of the log stopped the app with a panic naming
\* the entity and the trigger, and did nothing else
PanickedAt(n) ==
    LET e == log[n].e
    IN /\ panicked
       /\ Len(log) = n + 1
       /\ log[n + 1].op = "panic" /\ log[n + 1].e = e
       /\ log[n + 1].s = Ts(e)[log[n].i].trig
       /\ \A k \in 1..Len(log) :
            log[k].e = e => log[k].op \in {"checkout", "init", "check", "panic"}
       /\ comps[e] = pre.comps[e]
       /\ hookRuns[e] = pre.hookRuns[e]
       /\ cmdRuns = pre.cmdRuns
       /\ machine[e].init_transitions = FALSE

\* C33: the check of an input trigger for an entity without the ActionState
\* it reads is a panic that names the entity and the trigger, not a failed
\* trigger: the check applies no transition and no hook of the entity, and
\* the app takes no further step, so nothing is retried on a later tick.
C33_MissingActionStatePanics ==
    /\ [](\A n \in MissingChecks : PanickedAt(n))
    /\ [][~panicked]_vars

C33_Witness ==
    \E n \in MissingChecks :
        /\ PanickedAt(n)
        /\ log[n].i > 1
        /\ NHooks(machine[log[n].e]) > 0


(* ----------------------- the phases of a tick ------------------------- *)
\* Positions of the last tick's log where one of the steps `ops` was taken
Phase(ops) == {n \in 1..Len(log) : log[n].op \in ops}

\* The steps of StateMachine::run
Evaluate ==
    Phase({"check", "exit", "remove", "build", "insert", "enter", "info",
           "error_no_state", "error_multiple_states"})

\* Every step of P is taken before every step of Q
Before(P, Q) == \A a \in P, b \in Q : a < b

\* C35: within a tick every machine is checked out before any machine is
\* initialized, every dirty machine is initialized before any trigger of any
\* machine is checked, and no machine is put back before every entity has
\* been evaluated; a tick that ends has put back every machine it took, so
\* no tick begins while machines are checked out.
C35_PhasesOrdered ==
    (ticks > 0 /\ ~panicked) =>
        /\ Before(Phase({"checkout"}), Phase({"init"}) \cup Evaluate)
        /\ Before(Phase({"init"}), Evaluate)
        /\ Before(Evaluate, Phase({"commit", "discard"}))
        /\ Before(Phase({"commit", "discard"}), Phase({"apply"}))
        /\ \A e \in DOMAIN pre.machine :
             /\ Cardinality(LogIdx("checkout", e)) = 1
             /\ Cardinality(LogIdx("commit", e)) = 1
             /\ pre.machine[e].init_transitions =>
                  \A i \in 1..Len(pre.machine[e].transitions) :
                     \E n \in LogIdx("init", e) : log[n].i = i

C35_Witness ==
    /\ ticks > 0 /\ ~panicked
    /\ Cardinality(DOMAIN pre.machine) = 2
    /\ \A e \in DOMAIN pre.machine :
         /\ pre.machine[e].init_transitions
         /\ LogIdx("init", e) # {} /\ LogIdx("insert", e) # {}


(* ------------------------ the queue of the hooks ---------------------- *)
\* .trans::<A, _>(always, target), .trans::<AnyState, _>(always, target)
TransQueue ==
    /\ Building
    /\ Len(builder.transitions) < MaxHookTrans
    /\ \E src \in {IsState("A"), AnyState}, target \in HookStates :
         builder' = trans(builder, src, "always",
                          [ty |-> target, val |-> Len(builder.transitions) + 1])
    /\ BuildFrame

\* .command_on_exit::<AnyState, AnyState>(cmd)
OnExitAny ==
    /\ Building
    /\ NHooks(builder) < MaxHooks
    /\ \E cmd \in Commands : builder' = on_exit(builder, AnyState, AnyState, cmd)
    /\ BuildFrame

\* .command_on_enter::<AnyState, AnyState>(cmd1)
OnEnterAny ==
    /\ Building
    /\ NHooks(builder) < MaxHooks
    /\ builder' = on_enter(builder, AnyState, AnyState, "cmd1")
    /\ BuildFrame

NextQueue == TransQueue \/ OnExitAny \/ OnEnterAny \/ SpawnHook \/ Tick

\* StateMachine::default().command_on_enter::<AnyState, AnyState>(cmd1)
\*                        .command_on_exit::<AnyState, AnyState>(cmd2)
\*                        .trans::<A, _>(always, B).trans::<B, _>(always, A)
QueueMachine ==
    trans(trans(HookedMachine, IsState("A"), "always", [ty |-> "B", val |-> 1]),
          IsState("B"), "always", [ty |-> "A", val |-> 2])

\* An app with one entity spawned in A with that machine, a second being built
InitQueue ==
    /\ builder = Default
    /\ pool = {"e2"}
    /\ machine = [e \in {"e1"} |-> QueueMachine]
    /\ comps = [e \in {"e1"} |-> [x \in {"A"} |-> 0]]
    /\ res = FALSE
    /\ hookRuns = [e \in {"e1"} |-> [exit |-> <<0>>, enter |-> <<0>>]]
    /\ cmdRuns = [c \in Commands |-> 0]
    /\ markers = {}
    /\ ticks = 0
    /\ spawned = [e \in {"e1"} |-> "A"]
    /\ pre = NoPre
    /\ panicked = FALSE
    /\ log = <<>>
    /\ NoTrigger

SpecQueue == InitQueue /\ [][NextQueue]_vars

\* The hooks the last tick triggered, and the events it applied, in order
HooksTriggered == SelectSeq(log, LAMBDA ev : ev.op \in {"exit", "enter"})
EventsApplied == SelectSeq(log, LAMBDA ev : ev.op = "apply")

\* C36: what the hooks of a transition queue is applied only after the
\* transition's swap, and in the order the hooks were triggered: for one
\* transition the matching exit hooks in registration order, then the
\* matching enter hooks in registration order; for several entities in the
\* order the tick processed them.
C36_HooksAppliedInQueueOrder ==
    (ticks > 0 /\ ~panicked) =>
        /\ Len(EventsApplied) = Len(HooksTriggered)
        /\ \A n \in 1..Len(EventsApplied) :
             /\ EventsApplied[n].e = HooksTriggered[n].e
             /\ EventsApplied[n].s = HooksTriggered[n].s
        /\ \A e \in Ran : Before(LogIdx("insert", e), LogIdx("apply", e))
        /\ \A a, b \in 1..Len(HooksTriggered) :
             LET h == HooksTriggered[a]
                 k == HooksTriggered[b]
             IN a < b =>
                  IF h.e = k.e
                  THEN /\ h.op = "enter" => k.op = "enter"
                       /\ h.op = k.op => h.i < k.i
                  ELSE Before(LogIdx("check", h.e), LogIdx("check", k.e))

C36_Witness ==
    /\ ticks > 0 /\ ~panicked
    /\ \E a, b, c \in 1..Len(EventsApplied) :
         /\ a < b /\ b < c
         /\ EventsApplied[a].e = EventsApplied[b].e
         /\ EventsApplied[a].s # EventsApplied[b].s
         /\ EventsApplied[c].e # EventsApplied[a].e


(* --------------------- what the builder is run on --------------------- *)
BuilderTriggers == {"always", "near"}

\* .trans::<S, _>(trigger, state) and .trans::<AnyState, _>(trigger, state)
TransValue ==
    /\ Building
    /\ Len(builder.transitions) < MaxHookTrans
    /\ \E src \in {IsState(s) : s \in HookStates} \cup {AnyState},
          trigger \in BuilderTriggers, target \in HookStates :
         builder' = trans(builder, src, trigger,
                          [ty |-> target, val |-> Len(builder.transitions) + 1])
    /\ BuildFrame

\* .trans_builder(trigger, |trans: Trans<S, _>| ..) with a builder that makes
\* Next of the previous state's value, or of the trigger's payload
TransFrom ==
    /\ Building
    /\ Len(builder.transitions) < MaxHookTrans
    /\ \E src \in HookStates, trigger \in BuilderTriggers, target \in HookStates,
          from \in {"prev", "out"} :
         /\ from = "out" => trigger = "near"
         /\ builder' = trans_builder(builder, IsState(src), trigger,
                                     [next |-> target, val |-> 0,
                                      from |-> from])
    /\ BuildFrame

\* app.update() after the target has moved: the distance near_player
\* measures is what the frame made it
TickNear ==
    /\ pool = {} /\ ~panicked
    /\ ticks < MaxTicks
    /\ \E d \in Distances, order \in Orders(DOMAIN machine) :
         LET w == transition([World EXCEPT !.dist = d], order)
         IN /\ machine' = w.machine
            /\ comps' = w.comps
            /\ hookRuns' = w.hookRuns
            /\ cmdRuns' = w.cmdRuns
            /\ markers' = w.markers
            /\ panicked' = w.panicked
            /\ log' = w.log
            /\ dist' = d
    /\ ticks' = ticks + 1
    /\ pre' = [comps |-> comps, res |-> res, hookRuns |-> hookRuns,
               cmdRuns |-> cmdRuns, machine |-> machine]
    /\ UNCHANGED <<builder, pool, res, spawned, trig, out, axis>>

NextCtx == TransValue \/ TransFrom \/ SpawnIn(HookStates) \/ TickNear

SpecCtx == Init /\ [][NextCtx]_vars

\* The builder of transition i of e was run once in the last tick, on the
\* state e held when the tick began and on the payload of the check; what it
\* returned is the state e now holds
BuiltOnce(e, i) ==
    LET t == Ts(e)[i]
    IN /\ Cardinality(LogIdx("build", e)) = 1
       /\ \A n \in LogIdx("build", e) :
            /\ log[n].i = i
            /\ log[n].s.entity = e
            /\ log[n].s.out = ok_payload(t.trig, e, [dist |-> dist])
            /\ t.src.k = "is" => log[n].s.prev = pre.comps[e][PreCur(e)]
            /\ comps[e][t.build.next] = builder_run(t.build, log[n].s)

\* C37: the builder of the transition that wins is invoked exactly once, with
\* the value of the state the entity held right before the swap and the
\* success payload of this tick's check of its trigger, and the state
\* inserted is the value it returned; a transition registered with
\* trans(trigger, state) inserts the registered value each time it fires.
C37_BuilderRunOnPrevAndPayload ==
    \A e \in Ran : PreOne(e) =>
        /\ \A i \in Fired(e) :
             /\ BuiltOnce(e, i)
             /\ "from" \notin DOMAIN Ts(e)[i].build =>
                  comps[e][Ts(e)[i].build.next] = Ts(e)[i].build.val
        /\ Fired(e) = {} => LogIdx("build", e) = {}

C37_Witness ==
    \E e \in Ran : \E i \in Fired(e) :
        /\ PreOne(e) /\ BuiltOnce(e, i)
        /\ "from" \in DOMAIN Ts(e)[i].build
        /\ Ts(e)[i].build.from = "out"
        /\ pre.comps[e][PreCur(e)] = NearRange
        /\ dist < NearRange
        /\ comps[e][Ts(e)[i].build.next] = dist


(* --------------- machines removed while the tick runs ----------------- *)
Entities == {"e1", "e2"}

\* What a builder may do to an entity besides building Next
Effects == {[op |-> o, target |-> f] : o \in {"remove_machine", "despawn"}, f \in Entities}

\* .trans::<A, _>(always, state), and .trans_builder(always, builder) with a
\* builder whose Commands remove a StateMachine or despawn an entity
TransEffect ==
    /\ Building
    /\ Len(builder.transitions) < MaxHookTrans
    /\ \E target \in HookStates :
         \/ builder' = trans(builder, IsState("A"), "always",
                             [ty |-> target, val |-> Len(builder.transitions) + 1])
         \/ \E effect \in Effects :
              builder' = trans_builder(builder, IsState("A"), "always",
                                       [next |-> target, val |-> 1,
                                        effect |-> effect])
    /\ BuildFrame

NextRemove == TransEffect \/ SpawnHook \/ Tick

SpecRemove == InitTwo /\ [][NextRemove]_vars

\* Positions of the last tick's log where a builder removed the StateMachine
\* of f or despawned f
Removals(f) ==
    {n \in 1..Len(log) : log[n].op = "effect" /\ log[n].s.target = f}

\* The entities that had a machine when the last tick began and lost it, or
\* were despawned, while the tick ran
Lost == {f \in DOMAIN pre.machine : ticks > 0 /\ Removals(f) # {}}

\* f's checked-out machine was dropped without an error, and every other
\* machine the tick took is back on its own entity
Discarded(f) ==
    /\ ~panicked
    /\ f \notin DOMAIN machine
    /\ LogIdx("discard", f) # {} /\ LogIdx("commit", f) = {}
    /\ \A g \in DOMAIN pre.machine \ Lost :
         /\ g \in DOMAIN machine
         /\ LogIdx("commit", g) # {}
         /\ [machine[g] EXCEPT !.init_transitions = FALSE]
              = [pre.machine[g] EXCEPT !.init_transitions = FALSE]

\* C38: when an entity's StateMachine is removed, or the entity
\* is despawned, while the tick's transitions are run, the put-back drops
\* that entity's machine without an error and returns every other machine
\* to its own entity.
C38_LostMachineDiscarded == \A f \in Lost : Discarded(f)


(* ------------------- states the machine does not know ----------------- *)
\* When the last tick began e carried state components, none of them of a
\* type registered in its machine
Unregistered(e) ==
    /\ DOMAIN pre.comps[e] \cap States # {}
    /\ DOMAIN pre.comps[e] \cap pre.machine[e].states = {}

\* C39: an entity whose only state component is of a type its machine never
\* registered (no transition uses it, with_state was not called for it) is
\* found in no state: the error is reported and no transition fires for it,
\* the transitions from AnyState included.
C39_UnregisteredStateIsNoState ==
    \A e \in Ran : Unregistered(e) =>
        /\ LogIdx("error_no_state", e) # {}
        /\ LogIdx("check", e) = {}
        /\ Fired(e) = {}
        /\ comps[e] = pre.comps[e]
        /\ hookRuns[e] = pre.hookRuns[e]

C39_Witness ==
    \E e \in Ran :
        /\ Unregistered(e)
        /\ \E i \in 1..Len(Ts(e)) : Ts(e)[i].src = AnyState /\ Ts(e)[i].trig = "always"
        /\ NHooks(machine[e]) > 0
        /\ LogIdx("error_no_state", e) # {}
        /\ DOMAIN comps[e] = {"A"}


(* ---------------------- what a transition leaves ---------------------- *)
\* The last tick left f's machine as it was, the dirty flag aside
TablesKept(f) ==
    [machine[f] EXCEPT !.init_transitions = FALSE]
        = [pre.machine[f] EXCEPT !.init_transitions = FALSE]

\* What the last tick did to f is what f's own evaluation does: nothing but
\* clearing the dirty flag when no transition of f fired, f's own swap and a
\* set dirty flag when one did
OwnOutcome(f) ==
    /\ TablesKept(f)
    /\ Fired(f) = {} => comps[f] = pre.comps[f] /\ ~machine[f].init_transitions
    /\ \A i \in Fired(f) : comps[f] = After(f, i) /\ machine[f].init_transitions

\* C40: a transition taken by e changes e's state components and the dirty
\* flag of e's machine, and nothing of another entity: the state components,
\* the transition table and the dirty flag of every other entity are as that
\* entity's own evaluation leaves them.
C40_TransitionTouchesOwnEntityOnly ==
    \A e \in Ran : Fired(e) # {} =>
        /\ TablesKept(e)
        /\ \A f \in Ran \ {e} : PreOne(f) => OwnOutcome(f)

C40_Witness ==
    \E e \in Ran : \E f \in Ran \ {e} :
        /\ Fired(e) # {} /\ Fired(f) = {}
        /\ PreOne(f) /\ OwnOutcome(f)
        /\ Len(Ts(f)) > 0
        /\ comps[e] # pre.comps[e]
        /\ DOMAIN pre.comps[f] = DOMAIN pre.comps[e]

====
